---- MODULE Spec2Model ----
(***************************************************************************)
(* Model of the tool-calling orchestration loop of ai-agent-system:        *)
(* AIAgent.__init__, AIAgent.chat with its three provider adapters         *)
(* (_chat_anthropic, _chat_gemini, _chat_ollama), the nested fallback      *)
(* handlers of chat, execute_tool and the log helpers, reset_conversation  *)
(* and switch_provider (src/agent.py), and the loading of a stored chat    *)
(* into a session (src/server.py).                                         *)
(*                                                                         *)
(* One AIAgent session is modelled.  A chat() call is a sequence of steps, *)
(* one per external interaction (health check, provider request); a step   *)
(* contains everything the code does between two external interactions,    *)
(* including the execution of the tools of a response and the exception    *)
(* handlers that run when the request fails.  Inside a chat() call the     *)
(* value a tool returns is an input of the step (ToolOutputs) and the log  *)
(* files are sinks that nothing reads back; execute_tool itself, with its  *)
(* log entries, is modelled by ExecuteTool.                                *)
(*                                                                         *)
(* Two further parts stand beside the session.  SpecFile follows the       *)
(* write_file and read_file branches of execute_tool down to the           *)
(* characters written and read.  SpecServer is the WebSocket server of     *)
(* src/server.py with two connections, each with its own AIAgent given by  *)
(* provider, model, conversation and log file timestamp, the session table *)
(* and the event loop; the variables of the single session hold the        *)
(* environment of the process there.                                       *)
(***************************************************************************)
EXTENDS Integers, Sequences, FiniteSets, TLC

VARIABLES
    provider,              \* self.provider
    model,                 \* self.model
    anthropic_key,         \* bool(self.anthropic_key)
    gemini_key,            \* bool(self.gemini_key)
    anthropic_client,      \* self.anthropic_client is not None
    HAS_OPENAI,            \* module flag: openai library importable
    HAS_GEMINI,            \* module flag: google.generativeai importable
    conversation_history,  \* self.conversation_history
    pc,                    \* position of the chat() call in progress, "idle" if none
    site,                  \* line of the call of _chat_anthropic now running
    user_message,          \* argument of the chat() call
    iteration,             \* loop variable of _chat_ollama
    openai_messages,       \* local list of _chat_ollama
    outcome,               \* how the last chat() call ended
    pre_history,           \* conversation_history when chat() was called
    primary_error,         \* first failure raised by the active adapter in this call
    anthropic_starts,      \* calls of _chat_anthropic in this chat() call
    run_fresh,             \* the running _chat_anthropic has not completed a loop round yet
    response,              \* last response received by _chat_anthropic in this call
    ollama_requests,       \* requests issued by _chat_ollama in this call
    ollama_all_tools,      \* every _chat_ollama response so far carried tool calls
    gemini_client,         \* model name self.gemini_client was built with, None if no client
    last_op,               \* the operation that ran last on the session and how it ended
    produced,              \* assistant and tool-result turns the adapters produced in this call
    tool_call,             \* arguments and environment of the last execute_tool call
    tool_result,           \* what the last execute_tool call returned
    transcript,            \* entries the last execute_tool call wrote to the transcript log
    actions,               \* entries the last execute_tool call wrote to the actions log
    executed,              \* the execute_tool calls made for the last response of this call
    agents,                \* server: ids of the entries of the session table
    agent,                 \* server: the AIAgent object built for each connection
    conn,                  \* server: where each connection and its handler stand
    loop,                  \* server: the handler whose synchronous code holds the event loop
    now,                   \* server: the wall clock, in whole seconds
    fs,                    \* file tools: the bytes each path holds on disk
    last_write,            \* file tools: path and content of the last write_file
    read_result,           \* file tools: what the last read_file returned
    inbox,                 \* email: the messages of the IMAP inbox, in arrival order
    processed_ids,         \* email: self.processed_ids
    new_messages,          \* email: the list run() got from check_inbox, not yet handled
    email_history          \* email: conversation_history of the server's one AIAgent

config == <<anthropic_key, gemini_key, HAS_OPENAI, HAS_GEMINI>>
ollama_locals == <<iteration, openai_messages, ollama_requests, ollama_all_tools>>
call_args == <<user_message, pre_history, last_op>>
clients == <<anthropic_client, gemini_client>>
tool_vars == <<tool_call, tool_result, transcript, actions>>
server_vars == <<agents, agent, conn, loop, now>>
file_vars == <<fs, last_write, read_result>>
email_vars == <<inbox, processed_ids, new_messages, email_history>>
session_vars == <<provider, model, anthropic_key, gemini_key, anthropic_client,
                  HAS_OPENAI, HAS_GEMINI, conversation_history, pc, site,
                  user_message, iteration, openai_messages, outcome, pre_history,
                  primary_error, anthropic_starts, run_fresh, response,
                  ollama_requests, ollama_all_tools, gemini_client, last_op,
                  produced, tool_call, tool_result, transcript, actions, executed>>
vars == <<provider, model, anthropic_key, gemini_key, anthropic_client,
          HAS_OPENAI, HAS_GEMINI, conversation_history, pc, site,
          user_message, iteration, openai_messages, outcome, pre_history,
          primary_error, anthropic_starts, run_fresh, response, ollama_requests,
          ollama_all_tools, gemini_client, last_op, produced, tool_call,
          tool_result, transcript, actions, executed, agents, agent, conn,
          loop, now, fs, last_write, read_result, inbox, processed_ids,
          new_messages, email_history>>

(***************************************************************************)
(* Bounds of the model.                                                    *)
(***************************************************************************)
\* longest conversation_history explored
MaxHistory == 4

\* longest conversation of a session of the WebSocket server explored
MaxTurns == 2

\* most messages that reach the inbox of the email server
MaxMails == 3

\* Init fixes HAS_OPENAI and HAS_GEMINI to TRUE: the chat() path never reads
\* them, they only decide whether switch_provider accepts a provider.

\* program constant: max_iterations of _chat_ollama
max_iterations == 10

(***************************************************************************)
(* Value domains.                                                          *)
(***************************************************************************)
Providers == {"anthropic", "gemini", "ollama"}
Models == {"claude-3-opus", "gemini-2.0-flash-exp"}
Messages == {"m1", "m2"}
\* json.dumps of what execute_tool returned to an adapter: "ok" stands for
\* an output dict (whatever its exit code), "error" for {"error": text}
ToolOutputs == {"ok", "error"}
None == ""

\* exceptions: msg identifies the failure, wrapped says that it is a new
\* Exception object built around the text of another one
Err(m) == [msg |-> m, wrapped |-> FALSE]
NoError == Err("")
\* failures of messages.create, of generate_content, of requests.get and of
\* chat.completions.create
AnthropicErrors == {Err("anthropic e1"), Err("anthropic e2")}
GeminiErrors == {Err("gemini error")}
ConnectionErrors == {Err("connection refused")}
OllamaErrors == {Err("ollama error")}
AttributeError == Err("AttributeError: ollama_client")
HealthCheckFailed == Err("Ollama health check failed")

\* turns of conversation_history; kind tells a str content from a list content
UserTurn(m) == [role |-> "user", kind |-> "str", text |-> m, blocks |-> <<>>]
AssistantText(t) == [role |-> "assistant", kind |-> "str", text |-> t, blocks |-> <<>>]
AssistantBlocks(c) == [role |-> "assistant", kind |-> "list", text |-> "", blocks |-> c]
ToolResultTurn(rs) == [role |-> "user", kind |-> "list", text |-> "", blocks |-> rs]

\* content blocks
TextBlock(t) == [type |-> "text", text |-> t, id |-> "", name |-> "", content |-> ""]
ToolUseBlock(i, n) == [type |-> "tool_use", text |-> "", id |-> i, name |-> n, content |-> ""]
ToolResultBlock(i, r) == [type |-> "tool_result", text |-> "", id |-> i, name |-> "", content |-> r]

\* the response contents the provider stub can produce
Contents ==
    { <<TextBlock("a")>>,
      <<TextBlock("a"), ToolUseBlock("t1", "run_bash"), TextBlock("b")>>,
      <<ToolUseBlock("t1", "run_bash"), ToolUseBlock("t2", "read_file")>> }
StopReasons == {"end_turn", "tool_use", "max_tokens"}
AnthropicResponses == [stop_reason : StopReasons, content : Contents]
NoResponse == [stop_reason |-> "none", content |-> <<>>]
GeminiTexts == {"", "g"}

(***************************************************************************)
(* Pure helpers of the adapters.                                           *)
(***************************************************************************)
\* _chat_anthropic, end_turn branch: response_text += block.text for every
\* block that has a text attribute
RECURSIVE ResponseText(_)
ResponseText(content) ==
    IF content = <<>> THEN ""
    ELSE (IF Head(content).type = "text" THEN Head(content).text ELSE "")
         \o ResponseText(Tail(content))

\* variant: the empty concatenation is returned as it is
FinalTextNoSentinel(content) == ResponseText(content)

\* return response_text if response_text else "Task completed"
FinalText(content) ==
    IF ResponseText(content) # "" THEN ResponseText(content) ELSE "Task completed"

\* the tool_use blocks of a response, in block order
ToolUses(content) == SelectSeq(content, LAMBDA b : b.type = "tool_use")

\* the model argument of messages.create
RequestModel(m) == IF m = "claude-3-opus" THEN m ELSE "claude-sonnet-4-5"

\* variant: the loop stops after the first tool_use block
ToolExecutionsFirstOnly(content) ==
    IF ToolUses(content) = <<>> THEN <<>> ELSE <<ToolUses(content)[1]>>

\* the execute_tool calls of the tool_use branch: the loop over
\* response.content calls execute_tool(block.name, block.input) once for each
\* block of type tool_use, in the order of the blocks
ToolExecutions(content) ==
    SelectSeq(content, LAMBDA block : block.type = "tool_use")

\* variant: the result is keyed by the tool name instead of the block id
ToolResultsByName(content, outs) ==
    [i \in 1..Len(ToolUses(content)) |->
        ToolResultBlock(ToolUses(content)[i].name, outs[i])]

\* variant: the result of a tool that ended in an error is left out
ToolResultsWithoutErrors(content, outs) ==
    LET all == [i \in 1..Len(ToolUses(content)) |->
                  ToolResultBlock(ToolUses(content)[i].id, outs[i])]
    IN SelectSeq(all, LAMBDA b : b.content # "error")

\* the tool_results list built by the tool_use branch: one tool_result per
\* tool_use block, carrying the block's id and the output of execute_tool
ToolResults(content, outs) ==
    [i \in 1..Len(ToolUses(content)) |->
        ToolResultBlock(ToolUses(content)[i].id, outs[i])]

\* variant: response.text is used as it is
GeminiTextRaw(t) == t

\* the response of generate_content, whose text attribute is t
GeminiResponse(t) == [stop_reason |-> "none", content |-> <<TextBlock(t)>>]

\* response.text if response.text else the apology
GeminiText(t) ==
    IF t # "" THEN t ELSE "I apologize, but I couldn't generate a response."

\* _chat_ollama: the history entries whose content is a str, after the
\* system prompt
RECURSIVE StrMessages(_)
StrMessages(h) ==
    IF h = <<>> THEN <<>>
    ELSE (IF Head(h).kind = "str" THEN <<Head(h)>> ELSE <<>>) \o StrMessages(Tail(h))

OpenAIMessages(h) == <<[role |-> "system", kind |-> "str", text |-> "system_prompt", blocks |-> <<>>]>> \o StrMessages(h)

\* self.ollama_client: __init__ and switch_provider assign self.client and
\* self.openai_client only, so the attribute read by _chat_ollama is absent
ollama_client == FALSE

\* the exception chat raises when ollama failed and there is no fallback:
\* a new Exception whose text embeds the text of e
Unavailable(e) == [msg |-> e.msg, wrapped |-> TRUE]

NoOutcome == [kind |-> "none", text |-> "", error |-> NoError]
Returned(t) == [kind |-> "returned", text |-> t, error |-> NoError]
Raised(e) == [kind |-> "raised", text |-> "", error |-> e]

\* what is kept of a history that outgrows the explored length
Fit(h) == IF Len(h) <= MaxHistory THEN h ELSE SubSeq(h, 1, MaxHistory)

\* what is kept of the turns produced in a call: the part that the history,
\* cut at MaxHistory turns, still shows after the user turn of the call
FitProduced(p) ==
    LET room == MaxHistory - Len(pre_history) - 1 IN
    IF Len(p) <= room THEN p ELSE SubSeq(p, 1, room)

(***************************************************************************)
(* Ways a step of chat() ends.  Each fixes pc, site, outcome, the counters *)
(* of _chat_anthropic and the provider identity.                            *)
(***************************************************************************)
\* return <text> out of chat()
Return(t) ==
    /\ pc' = "idle"
    /\ outcome' = Returned(t)
    /\ run_fresh' = FALSE
    /\ UNCHANGED <<site, anthropic_starts, provider, model>>

\* the exception e leaves chat()
Raise(e) ==
    /\ pc' = "idle"
    /\ outcome' = Raised(e)
    /\ run_fresh' = FALSE
    /\ UNCHANGED <<site, anthropic_starts, provider, model>>

\* the running loop goes round once more
Continue ==
    /\ run_fresh' = FALSE
    /\ UNCHANGED <<pc, site, outcome, anthropic_starts, provider, model>>

\* variant: the fallback makes anthropic the session's provider
StartAnthropicSticky(s) ==
    /\ pc' = "anthropic"
    /\ site' = s
    /\ anthropic_starts' = anthropic_starts + 1
    /\ run_fresh' = TRUE
    /\ provider' = "anthropic"
    /\ UNCHANGED <<outcome, model>>

\* return self._chat_anthropic() at line s
StartAnthropic(s) ==
    /\ pc' = "anthropic"
    /\ site' = s
    /\ anthropic_starts' = anthropic_starts + 1
    /\ run_fresh' = TRUE
    /\ UNCHANGED <<outcome, provider, model>>

\* variant: the last resort fallback does not test self.provider
Handler411AnyProvider(e) ==
    IF anthropic_client
    THEN StartAnthropic("416")
    ELSE Raise(e)

\* chat, "except Exception as e" at line 411 (last resort fallback)
Handler411(e) ==
    IF anthropic_client /\ provider # "anthropic"
    THEN StartAnthropic("416")
    ELSE Raise(e)

\* variant: without a fallback the handler re-raises e itself
Handler401Reraise(e) ==
    IF anthropic_client
    THEN StartAnthropic("405")
    ELSE Handler411(e)

\* chat, "except Exception as e" at line 401 (around the health check and
\* _chat_ollama); what it raises is caught at line 411
Handler401(e) ==
    IF anthropic_client
    THEN StartAnthropic("405")
    ELSE Handler411(Unavailable(e))

\* variant: _chat_gemini has no fallback and chat lets the failure through
GeminiExceptNoFallback(e) == Raise(e)

\* _chat_gemini, "except Exception as e" at line 513
GeminiExcept(e) ==
    IF anthropic_client
    THEN StartAnthropic("518")
    ELSE Handler411(e)

\* _chat_ollama, "except Exception as e" at line 594
OllamaExcept(e) ==
    IF anthropic_client
    THEN StartAnthropic("598")
    ELSE Handler401(e)

\* an exception leaves _chat_anthropic: where it goes depends on the call
AnthropicFailure(e) ==
    CASE site = "385" -> Handler411(e)
      [] site = "518" -> Handler411(e)
      [] site = "598" -> Handler401(e)
      [] site = "405" -> Handler411(e)
      [] site = "416" -> Raise(e)

(***************************************************************************)
(* The log helpers _log_to_file, _log_to_transcript and _log_to_actions:   *)
(* open the file, write, and on any Exception log the failure and go on.   *)
(* ok says whether the write succeeds.                                     *)
(***************************************************************************)
LogError == Err("log write failed")

\* variant: the helper has no try/except and the failed write propagates
LogRaisesUnguarded(ok) == ~ok

\* whether the helper raises to its caller
LogRaises(ok) == FALSE

(***************************************************************************)
(* execute_tool(tool_name, tool_input).  tool_input is given by the set of *)
(* its keys; world is what the operating system does with the command or   *)
(* the file: it ends with exit code 0 (or the file operation succeeds),    *)
(* it ends with another exit code, it outlives the timeout, or the call    *)
(* raises an OSError (missing or unreadable file, undecodable output).     *)
(***************************************************************************)
ToolNames == {"run_bash", "read_file", "write_file", "list_directory", "search_files"}

RequiredKeys(name) ==
    CASE name = "run_bash" -> {"command"}
      [] name = "read_file" -> {"path"}
      [] name = "write_file" -> {"path", "content"}
      [] name = "list_directory" -> {"path"}
      [] name = "search_files" -> {"path", "pattern", "search_type"}
      [] OTHER -> {}

KeySets == {RequiredKeys(n) : n \in ToolNames} \cup {{}}

\* only run_bash passes a timeout to subprocess.run; the file tools start
\* no process
WorldsOf(name) ==
    CASE name = "run_bash" -> {"exit 0", "exit nonzero", "timeout", "os error"}
      [] name \in {"list_directory", "search_files"} -> {"exit 0", "exit nonzero", "os error"}
      [] name \in {"read_file", "write_file"} -> {"exit 0", "os error"}
      [] OTHER -> {"exit 0"}

\* the values execute_tool returns: an output dict, {"error": text}, None
Output(text) == [kind |-> "output", text |-> text]
Error(text) == [kind |-> "error", text |-> text]
NoneResult == [kind |-> "none", text |-> ""]

\* variant: there is no "except subprocess.TimeoutExpired" branch and the
\* timeout is caught by "except Exception" like any other failure
ToolOutcomeNoTimeoutBranch(name, keys, world) ==
    CASE name \notin ToolNames -> NoneResult
      [] name = "write_file" ->
            IF "path" \notin keys THEN Error("KeyError")
            ELSE IF world = "os error" THEN Error("OSError")
            ELSE IF "content" \notin keys THEN Error("KeyError")
            ELSE Output(world)
      [] OTHER ->
            IF ~(RequiredKeys(name) \subseteq keys) THEN Error("KeyError")
            ELSE IF world = "timeout" THEN Error("TimeoutExpired")
            ELSE IF world = "os error" THEN Error("OSError")
            ELSE Output(world)

\* the value computed by the branch of tool_name, before any log is written
ToolOutcome(name, keys, world) ==
    CASE name \notin ToolNames ->
            \* no branch of the if/elif chain matches: the function ends
            NoneResult
      [] name = "write_file" ->
            IF "path" \notin keys THEN Error("KeyError")
            ELSE IF world = "os error" THEN Error("OSError")
            ELSE IF "content" \notin keys THEN Error("KeyError")
            ELSE Output(world)
      [] OTHER ->
            IF ~(RequiredKeys(name) \subseteq keys) THEN Error("KeyError")
            ELSE IF world = "timeout" THEN Error("Command timed out after 60 seconds")
            ELSE IF world = "os error" THEN Error("OSError")
            ELSE Output(world)

ExecuteTool(name, keys, world, transcript_ok, actions_ok) ==
    LET out == ToolOutcome(name, keys, world)
        \* the log calls stand at the end of the branches that complete
        logs == out.kind = "output"
        transcript_raised == logs /\ LogRaises(transcript_ok)
        actions_raised == logs /\ ~transcript_raised /\ LogRaises(actions_ok)
    IN
    /\ pc = "idle"
    \* applied to a newly built session: execute_tool reads nothing of the
    \* session but the paths of its two log files
    /\ last_op \in {"construct", "tool"}
    /\ world \in WorldsOf(name)
    /\ tool_call' = [name |-> name, keys |-> keys, world |-> world,
                     transcript_ok |-> transcript_ok, actions_ok |-> actions_ok]
    /\ tool_result' = IF transcript_raised \/ actions_raised
                      THEN Error(LogError.msg)   \* caught by "except Exception"
                      ELSE out
    /\ transcript' = IF logs /\ transcript_ok THEN <<[tool |-> name]>> ELSE <<>>
    /\ actions' = IF logs /\ ~transcript_raised /\ actions_ok
                  THEN <<[tool |-> name]>> ELSE <<>>
    /\ last_op' = "tool"
    /\ UNCHANGED <<config, server_vars, file_vars, email_vars, clients, provider, model, conversation_history, pc, site,
                   user_message, pre_history, outcome, primary_error,
                   anthropic_starts, run_fresh, response, produced, executed,
                   ollama_locals>>

\* the record of execute_tool calls before the first one
NoToolCall == [name |-> "", keys |-> {}, world |-> "", transcript_ok |-> TRUE, actions_ok |-> TRUE]
NoResult == [kind |-> "not called", text |-> ""]

(***************************************************************************)
(* The WebSocket server and the file tools before anything has happened.   *)
(***************************************************************************)
\* the connections the server accepts; each gets its own uuid4 session id
Sessions == {"s1", "s2"}

\* no AIAgent object has been built for the connection
NoAgent == [provider |-> None, model |-> None, conversation_history |-> <<>>,
            log |-> None]

\* the connection has not been opened
NotAccepted == [handler |-> "none", client |-> "none", sent |-> "none"]

\* the handler has ended and the connection is closed
Closed == [handler |-> "ended", client |-> "gone", sent |-> "none"]

\* the seconds of the wall clock, as strftime('%Y%m%d_%H%M%S') prints them
Seconds == <<"20250101_120000", "20250101_120001">>

\* agents = {} at import, no connection, the event loop idle
ServerIdle ==
    /\ agents = {}
    /\ agent = [s \in Sessions |-> NoAgent]
    /\ conn = [s \in Sessions |-> NotAccepted]
    /\ loop = None
    /\ now = Seconds[1]

\* the paths the file tools are called with
Paths == {"p1", "p2"}

\* the path names no file
NoFile == <<"absent">>
NoWrite == [path |-> None, content |-> <<>>]
NoRead == [kind |-> "none", path |-> None, content |-> <<>>]

FilesUntouched ==
    /\ fs = [p \in Paths |-> NoFile]
    /\ last_write = NoWrite
    /\ read_result = NoRead

\* EmailAIServer.__init__: processed_ids = set(), a new AIAgent; nothing has
\* arrived in the inbox and run() holds no list
EmailIdle ==
    /\ inbox = <<>>
    /\ processed_ids = {}
    /\ new_messages = <<>>
    /\ email_history = <<>>

(***************************************************************************)
(* Construction.                                                           *)
(***************************************************************************)
\* variant: the gemini branch tests the library and not the key
CredentialOkLibraryOnly(p) ==
    CASE p = "anthropic" -> anthropic_key
      [] p = "ollama" -> HAS_OPENAI
      [] p = "gemini" -> HAS_GEMINI
      [] OTHER -> FALSE

\* the checks of __init__ and switch_provider for provider p
CredentialOk(p) ==
    CASE p = "anthropic" -> anthropic_key
      [] p = "ollama" -> HAS_OPENAI
      [] p = "gemini" -> HAS_GEMINI /\ gemini_key
      [] OTHER -> FALSE

\* The environment __init__ reads, before any session exists: AI_PROVIDER
\* and AI_MODEL sit in provider and model, pc is "new".
Environment ==
    /\ provider \in Providers \cup {"unknown"}
    /\ model \in Models
    /\ anthropic_key \in BOOLEAN
    /\ gemini_key \in BOOLEAN
    /\ HAS_OPENAI \in BOOLEAN
    /\ HAS_GEMINI \in BOOLEAN
    /\ anthropic_client = FALSE
    /\ gemini_client = None
    /\ conversation_history = <<>>
    /\ pc = "new"
    /\ site = "none"
    /\ user_message = None
    /\ iteration = 0
    /\ openai_messages = <<>>
    /\ outcome = NoOutcome
    /\ pre_history = <<>>
    /\ primary_error = NoError
    /\ anthropic_starts = 0
    /\ run_fresh = FALSE
    /\ response = NoResponse
    /\ ollama_requests = 0
    /\ ollama_all_tools = TRUE
    /\ last_op = "none"
    /\ produced = <<>>
    /\ tool_call = NoToolCall
    /\ tool_result = NoResult
    /\ transcript = <<>>
    /\ actions = <<>>
    /\ executed = <<>>

\* the environment, with no server connection and no file tool call yet
InitEnv == Environment /\ ServerIdle /\ FilesUntouched /\ EmailIdle

\* AIAgent(api_key): the branch of the selected provider raises, or the
\* clients are created and the session exists
Construct ==
    /\ pc = "new"
    /\ IF CredentialOk(provider)
       THEN /\ pc' = "idle"
            /\ anthropic_client' = anthropic_key
            /\ gemini_client' = (IF provider = "gemini" THEN model ELSE None)
            /\ last_op' = "construct"
       ELSE /\ pc' = "failed"
            /\ last_op' = "construct_raised"
            /\ UNCHANGED clients
    /\ UNCHANGED <<config, server_vars, file_vars, email_vars, tool_vars, provider, model, conversation_history, site,
                   user_message, pre_history, outcome, primary_error,
                   anthropic_starts, run_fresh, response, produced, executed,
                   ollama_locals>>

\* a session that __init__ has built, with both client libraries installed
NewSession ==
    /\ provider \in Providers
    /\ model \in Models
    /\ anthropic_key \in BOOLEAN
    /\ gemini_key \in BOOLEAN
    /\ HAS_OPENAI = TRUE     \* both client libraries are installed
    /\ HAS_GEMINI = TRUE
    /\ CredentialOk(provider)
    /\ anthropic_client = anthropic_key
    /\ conversation_history = <<>>
    /\ pc = "idle"
    /\ site = "none"
    /\ user_message = None
    /\ iteration = 0
    /\ openai_messages = <<>>
    /\ outcome = NoOutcome
    /\ pre_history = <<>>
    /\ primary_error = NoError
    /\ anthropic_starts = 0
    /\ run_fresh = FALSE
    /\ response = NoResponse
    /\ ollama_requests = 0
    /\ ollama_all_tools = TRUE
    /\ gemini_client = (IF provider = "gemini" THEN model ELSE None)
    /\ last_op = "construct"
    /\ produced = <<>>
    /\ tool_call = NoToolCall
    /\ tool_result = NoResult
    /\ transcript = <<>>
    /\ actions = <<>>
    /\ executed = <<>>

\* the built session, with no server connection and no file tool call yet
Init == NewSession /\ ServerIdle /\ FilesUntouched /\ EmailIdle

(***************************************************************************)
(* chat(user_message): append the user turn and enter the active adapter.  *)
(***************************************************************************)
\* variant: chat() first drops the turns of a call that raised
AppendUserTurnAfterRollback(h, m) ==
    Append(IF last_op = "chat" /\ outcome.kind = "raised" THEN pre_history ELSE h,
           UserTurn(m))

\* self.conversation_history.append({"role": "user", "content": user_message})
AppendUserTurn(h, m) == Append(h, UserTurn(m))

ChatCall(m) ==
    /\ pc = "idle"
    /\ Len(conversation_history) < MaxHistory
    /\ user_message' = m
    /\ pre_history' = conversation_history
    /\ last_op' = "chat"
    /\ produced' = <<>>
    /\ executed' = <<>>
    /\ primary_error' = NoError
    /\ iteration' = 0
    /\ openai_messages' = <<>>
    /\ ollama_requests' = 0
    /\ ollama_all_tools' = TRUE
    /\ response' = NoResponse
    /\ tool_call' = NoToolCall
    /\ tool_result' = NoResult
    /\ transcript' = <<>>
    /\ actions' = <<>>
    /\ \E log_ok \in BOOLEAN :
         IF LogRaises(log_ok)
         THEN \* the write of the USER line, the first statement, raised
              /\ pc' = "idle"
              /\ outcome' = Raised(LogError)
              /\ site' = "none" /\ anthropic_starts' = 0 /\ run_fresh' = FALSE
              /\ UNCHANGED conversation_history
         ELSE /\ conversation_history' = AppendUserTurn(conversation_history, m)
              /\ outcome' = NoOutcome
              /\ run_fresh' = (provider = "anthropic")
              /\ CASE provider = "anthropic" ->
                        pc' = "anthropic" /\ site' = "385" /\ anthropic_starts' = 1
                   [] provider = "gemini" ->
                        pc' = "gemini" /\ site' = "none" /\ anthropic_starts' = 0
                   [] provider = "ollama" ->
                        pc' = "health" /\ site' = "none" /\ anthropic_starts' = 0
    /\ UNCHANGED <<config, server_vars, file_vars, email_vars, clients, provider, model>>

(***************************************************************************)
(* _chat_anthropic: one round of the while loop.                           *)
(***************************************************************************)
AnthropicResponse(r, sat) ==
    LET h1 == Append(conversation_history, AssistantBlocks(r.content)) IN
    CASE r.stop_reason = "end_turn" ->
            /\ sat \/ Len(h1) <= MaxHistory
            /\ conversation_history' = Fit(h1)
            /\ produced' = FitProduced(Append(produced, AssistantBlocks(r.content)))
            /\ executed' = <<>>
            /\ Return(FinalText(r.content))
      [] r.stop_reason = "tool_use" ->
            \E outs \in [1..Len(ToolUses(r.content)) -> ToolOutputs] :
                LET results == ToolResultTurn(ToolResults(r.content, outs))
                    h2 == Append(h1, results)
                IN
                /\ sat \/ Len(h2) <= MaxHistory
                /\ conversation_history' = Fit(h2)
                /\ produced' = FitProduced(produced \o <<AssistantBlocks(r.content), results>>)
                /\ executed' = ToolExecutions(r.content)
                /\ Continue
      [] OTHER ->
            /\ sat \/ Len(h1) <= MaxHistory
            /\ conversation_history' = Fit(h1)
            /\ produced' = FitProduced(Append(produced, AssistantBlocks(r.content)))
            /\ executed' = <<>>
            /\ Continue

AnthropicStep(sat) ==
    /\ pc = "anthropic"
    /\ UNCHANGED <<config, server_vars, file_vars, email_vars, tool_vars, clients, call_args, ollama_locals>>
    /\ \/ \E e \in AnthropicErrors :
            /\ AnthropicFailure(e)
            /\ primary_error' = IF site = "385" THEN e ELSE primary_error
            /\ UNCHANGED <<conversation_history, produced, response, executed>>
       \/ \E r \in AnthropicResponses :
            /\ AnthropicResponse(r, sat)
            /\ response' = r
            /\ UNCHANGED primary_error

(***************************************************************************)
(* _chat_gemini: the single completion request.                            *)
(***************************************************************************)
\* variant: the reply is returned without being recorded in the history
GeminiStepReplyNotRecorded(sat) ==
    /\ pc = "gemini"
    /\ UNCHANGED <<config, server_vars, file_vars, email_vars, tool_vars, clients, call_args,
                   ollama_locals, executed>>
    /\ \/ \E t \in GeminiTexts :
            /\ UNCHANGED conversation_history
            /\ produced' = FitProduced(Append(produced, AssistantText(GeminiText(t))))
            /\ Return(GeminiText(t))
            /\ response' = GeminiResponse(t)
            /\ UNCHANGED primary_error
       \/ \E e \in GeminiErrors :
            /\ GeminiExcept(e)
            /\ primary_error' = e
            /\ UNCHANGED <<conversation_history, produced, response>>

GeminiStep(sat) ==
    /\ pc = "gemini"
    /\ UNCHANGED <<config, server_vars, file_vars, email_vars, tool_vars, clients, call_args,
                   ollama_locals, executed>>
    /\ \/ \E t \in GeminiTexts :
            LET h1 == Append(conversation_history, AssistantText(GeminiText(t))) IN
            /\ sat \/ Len(h1) <= MaxHistory
            /\ conversation_history' = Fit(h1)
            /\ produced' = FitProduced(Append(produced, AssistantText(GeminiText(t))))
            /\ Return(GeminiText(t))
            /\ response' = GeminiResponse(t)
            /\ UNCHANGED primary_error
       \/ \E e \in GeminiErrors :
            /\ GeminiExcept(e)
            /\ primary_error' = e
            /\ UNCHANGED <<conversation_history, produced, response>>

(***************************************************************************)
(* chat, provider ollama: the connectivity test before _chat_ollama.       *)
(***************************************************************************)
HealthCheck ==
    /\ pc = "health"
    /\ UNCHANGED <<config, server_vars, file_vars, email_vars, tool_vars, clients, call_args,
                   conversation_history, produced, executed, response>>
    /\ \/ \* status 200: enter _chat_ollama, which builds openai_messages
          /\ pc' = "ollama"
          /\ openai_messages' = OpenAIMessages(conversation_history)
          /\ iteration' = 0
          /\ UNCHANGED <<site, outcome, anthropic_starts, run_fresh, provider,
                         model, primary_error, ollama_requests, ollama_all_tools>>
       \/ \* requests.get raised, or the status was not 200
          \E e \in ConnectionErrors \cup {HealthCheckFailed} :
            /\ Handler401(e)
            /\ primary_error' = e
            /\ UNCHANGED ollama_locals

(***************************************************************************)
(* _chat_ollama: one iteration of the for loop.                            *)
(***************************************************************************)
OllamaToolCalls == { <<ToolUseBlock("t1", "run_bash")>>,
                     <<ToolUseBlock("t1", "run_bash"), ToolUseBlock("t2", "read_file")>> }
OllamaResponses == [content : {"", "o"}, tool_calls : OllamaToolCalls \cup {<<>>}]

\* the messages appended for a response with tool calls
OllamaToolMessages(r, outs) ==
    <<[role |-> "assistant", kind |-> "str", text |-> r.content, blocks |-> r.tool_calls]>>
    \o [i \in 1..Len(r.tool_calls) |->
          [role |-> "tool", kind |-> "str", text |-> outs[i],
           blocks |-> <<ToolResultBlock(r.tool_calls[i].id, outs[i])>>]]

OllamaFailure(e) ==
    /\ OllamaExcept(e)
    /\ primary_error' = e
    /\ UNCHANGED <<conversation_history, produced, executed, iteration, openai_messages>>

OllamaStep ==
    /\ pc = "ollama"
    /\ UNCHANGED <<config, server_vars, file_vars, email_vars, tool_vars, clients, call_args, response>>
    /\ IF ~ollama_client
       THEN \* reading self.ollama_client raises inside the try
            /\ OllamaFailure(AttributeError)
            /\ UNCHANGED <<ollama_requests, ollama_all_tools>>
       ELSE /\ ollama_requests' = ollama_requests + 1
            /\ \/ \E e \in OllamaErrors :
                    OllamaFailure(e) /\ UNCHANGED ollama_all_tools
               \/ \E r \in OllamaResponses :
                    /\ UNCHANGED <<conversation_history, primary_error>>
                    /\ ollama_all_tools' = (ollama_all_tools /\ r.tool_calls # <<>>)
                    /\ IF r.tool_calls # <<>>
                       THEN \E outs \in [1..Len(r.tool_calls) -> ToolOutputs] :
                              /\ openai_messages' = openai_messages \o OllamaToolMessages(r, outs)
                              /\ produced' = FitProduced(produced \o OllamaToolMessages(r, outs))
                              /\ executed' = r.tool_calls
                              /\ iteration' = iteration + 1
                              /\ IF iteration + 1 = max_iterations
                                 THEN Return("Maximum iterations reached")
                                 ELSE Continue
                       ELSE /\ Return(IF r.content # "" THEN r.content ELSE "Task completed")
                            /\ produced' = FitProduced(Append(produced, AssistantText(r.content)))
                            /\ UNCHANGED <<iteration, openai_messages, executed>>

(***************************************************************************)
(* reset_conversation and switch_provider.                                 *)
(***************************************************************************)
\* the record of the last chat() call is dropped when another operation runs
ForgetCall ==
    /\ site' = "none"
    /\ produced' = <<>>
    /\ executed' = <<>>
    /\ tool_call' = NoToolCall
    /\ tool_result' = NoResult
    /\ transcript' = <<>>
    /\ actions' = <<>>
    /\ user_message' = None
    /\ pre_history' = <<>>
    /\ outcome' = NoOutcome
    /\ primary_error' = NoError
    /\ anthropic_starts' = 0
    /\ run_fresh' = FALSE
    /\ response' = NoResponse
    /\ iteration' = 0
    /\ openai_messages' = <<>>
    /\ ollama_requests' = 0
    /\ ollama_all_tools' = TRUE

\* variant: the session goes back to the default model as well
ResetToDefaultModel ==
    /\ pc = "idle"
    /\ conversation_history' = <<>>
    /\ last_op' = "reset"
    /\ model' = "gemini-2.0-flash-exp"
    /\ ForgetCall
    /\ UNCHANGED <<config, server_vars, file_vars, email_vars, clients, provider, pc>>

Reset ==
    /\ pc = "idle"
    /\ conversation_history' = <<>>
    \* the reset marker is written to the transcript after the assignment
    /\ \E log_ok \in BOOLEAN :
         last_op' = IF LogRaises(log_ok) THEN "reset_raised" ELSE "reset"
    /\ ForgetCall
    /\ UNCHANGED <<config, server_vars, file_vars, email_vars, clients, provider, model, pc>>

\* variant: the except branch re-raises without restoring the identity
SwitchProviderNoRevert(new_provider, new_model) ==
    LET set_model == IF new_model # None THEN new_model ELSE model
        raises == ~CredentialOk(new_provider)
    IN
    /\ pc = "idle"
    /\ provider' = new_provider
    /\ model' = set_model
    /\ IF raises
       THEN /\ last_op' = "switch_raised"
            /\ UNCHANGED clients
       ELSE /\ anthropic_client' = (anthropic_client \/ new_provider = "anthropic")
            /\ gemini_client' = (IF new_provider = "gemini" THEN set_model ELSE gemini_client)
            /\ last_op' = "switch_ok"
    /\ ForgetCall
    /\ UNCHANGED <<config, server_vars, file_vars, email_vars, conversation_history, pc>>

\* variant: the client built for an earlier model is kept
SwitchProviderKeepsGeminiClient(new_provider, new_model) ==
    LET old_provider == provider
        old_model == model
        set_model == IF new_model # None THEN new_model ELSE model
        raises == ~CredentialOk(new_provider)
    IN
    /\ pc = "idle"
    /\ IF raises
       THEN /\ provider' = old_provider
            /\ model' = old_model
            /\ last_op' = "switch_raised"
            /\ UNCHANGED clients
       ELSE /\ provider' = new_provider
            /\ model' = set_model
            /\ anthropic_client' = (anthropic_client \/ new_provider = "anthropic")
            /\ gemini_client' = (IF new_provider = "gemini" /\ gemini_client = None
                                 THEN set_model ELSE gemini_client)
            /\ last_op' = "switch_ok"
    /\ ForgetCall
    /\ UNCHANGED <<config, server_vars, file_vars, email_vars, conversation_history, pc>>

SwitchProvider(new_provider, new_model) ==
    LET old_provider == provider
        old_model == model
        \* self.provider = new_provider; if new_model: self.model = new_model
        set_model == IF new_model # None THEN new_model ELSE model
        \* the branch of new_provider raises
        raises == ~CredentialOk(new_provider)
    IN
    /\ pc = "idle"
    /\ IF raises
       THEN \* the except branch restores old_provider and old_model and re-raises
            /\ provider' = old_provider
            /\ model' = old_model
            /\ last_op' = "switch_raised"
            /\ UNCHANGED clients
       ELSE /\ provider' = new_provider
            /\ model' = set_model
            /\ anthropic_client' = (anthropic_client \/ new_provider = "anthropic")
            /\ gemini_client' = (IF new_provider = "gemini" THEN set_model ELSE gemini_client)
            /\ last_op' = "switch_ok"
    /\ ForgetCall
    /\ UNCHANGED <<config, server_vars, file_vars, email_vars, conversation_history, pc>>

(***************************************************************************)
(* Loading a stored chat into a session (server.py): the endpoint          *)
(* POST /api/chat-history/{chat_id}/load and the WebSocket command         *)
(* /load_chat run the same parser over a transcript file and assign the    *)
(* result to agent.conversation_history.                                   *)
(*                                                                         *)
(* A line of the file, after strip(), is a record: mark says which test of *)
(* the parser it passes, text is the line without its marker.              *)
(*   ts_user    "[<time>] USER: <text>"   (text "" is the line that ends   *)
(*              in "USER:", which holds no "] USER: " to split at)         *)
(*   ts_agent   "[<time>] AGENT: <text>"                                   *)
(*   user       "User: <text>"                                             *)
(*   assistant  "Assistant: <text>"                                        *)
(*   bracket    any other line starting with "["                           *)
(*   blank      empty after strip()                                        *)
(*   plain      any other line                                             *)
(***************************************************************************)
Line(mark, text) == [mark |-> mark, text |-> text]

\* the loop over the lines: conv is conversation, cur holds current_message
\* (empty for None); ok is FALSE when split(...)[1] raised IndexError
RECURSIVE ParseLines(_, _, _, _)
ParseLines(lines, i, conv, cur) ==
    IF i > Len(lines)
    THEN [ok |-> TRUE, conversation |-> conv \o cur]
    ELSE LET line == lines[i] IN
         CASE line.mark = "blank" ->
                ParseLines(lines, i + 1, conv, cur)
           [] line.mark \in {"ts_user", "ts_agent"} /\ line.text = "" ->
                [ok |-> FALSE, conversation |-> <<>>]
           [] line.mark \in {"ts_user", "user"} ->
                ParseLines(lines, i + 1, conv \o cur, <<UserTurn(line.text)>>)
           [] line.mark \in {"ts_agent", "assistant"} ->
                ParseLines(lines, i + 1, conv \o cur, <<AssistantText(line.text)>>)
           [] line.mark = "plain" /\ cur # <<>> ->
                ParseLines(lines, i + 1, conv,
                           <<[cur[1] EXCEPT !.text = @ \o "\n" \o line.text]>>)
           [] OTHER ->
                ParseLines(lines, i + 1, conv, cur)

ParseTranscript(lines) == ParseLines(lines, 1, <<>>, <<>>)

\* the transcript files a chat_id can name
SessionLog ==
    << Line("plain", "=== AI Agent Conversation Log Started ==="),
       Line("ts_user", "m1"),
       Line("bracket", "[t] TOOL: run_bash"),
       Line("plain", "TOOL: run_bash"),
       Line("blank", ""),
       Line("ts_agent", "g") >>
EmptyMessageLog == << Line("ts_user", "m1"), Line("ts_agent", "g"), Line("ts_user", "") >>
Transcripts ==
    { [exists |-> FALSE, lines |-> <<>>],
      [exists |-> TRUE, lines |-> <<>>],
      [exists |-> TRUE, lines |-> SessionLog],
      [exists |-> TRUE, lines |-> EmptyMessageLog] }

\* variant: the session's history is cleared before the file is looked at
LoadHistoryClearsFirst(file) ==
    LET parsed == ParseTranscript(file.lines) IN
    /\ pc = "idle"
    /\ IF file.exists /\ parsed.ok
       THEN /\ conversation_history' = parsed.conversation
            /\ last_op' = "load_ok"
       ELSE /\ conversation_history' = <<>>
            /\ last_op' = "load_failed"
    /\ ForgetCall
    /\ UNCHANGED <<config, server_vars, file_vars, email_vars, clients, provider, model, pc>>

LoadHistory(file) ==
    LET parsed == ParseTranscript(file.lines) IN
    /\ pc = "idle"
    /\ IF file.exists /\ parsed.ok
       THEN /\ conversation_history' = parsed.conversation
            /\ last_op' = "load_ok"
       ELSE \* "Chat not found", or the except branch: nothing was assigned
            /\ UNCHANGED conversation_history
            /\ last_op' = "load_failed"
    /\ ForgetCall
    /\ UNCHANGED <<config, server_vars, file_vars, email_vars, clients, provider, model, pc>>

(***************************************************************************)
(* Specifications.                                                         *)
(***************************************************************************)
ChatStep(sat) ==
    \/ AnthropicStep(sat)
    \/ GeminiStep(sat)
    \/ HealthCheck
    \/ OllamaStep

Next ==
    \/ \E m \in Messages : ChatCall(m)
    \/ AnthropicStep(FALSE)
    \/ GeminiStep(FALSE)
    \/ HealthCheck
    \/ OllamaStep
    \/ Reset
    \/ \E p \in Providers \cup {"unknown"}, m \in Models \cup {None} : SwitchProvider(p, m)

Spec == Init /\ [][Next]_vars

\* The same operations with the conversation cut at MaxHistory turns instead
\* of the exploration stopping there, so that a loop that never ends is a
\* cycle of the state graph.  Every request gets an answer or fails (the
\* HTTP clients return or raise), hence the weak fairness of the chat steps.
NextTerm ==
    \/ \E m \in Messages : ChatCall(m)
    \/ AnthropicStep(TRUE)
    \/ GeminiStep(TRUE)
    \/ HealthCheck
    \/ OllamaStep
    \/ Reset
    \/ \E p \in Providers \cup {"unknown"}, m \in Models \cup {None} : SwitchProvider(p, m)

SpecTerm == Init /\ [][NextTerm]_vars /\ WF_vars(ChatStep(TRUE))


\* The session as the server drives it: the operations of Spec and the
\* loading of stored chats.
NextLoad ==
    \/ Next
    \/ \E file \in Transcripts : LoadHistory(file)

SpecLoad == Init /\ [][NextLoad]_vars

\* Construction of a session in any environment, then provider switches.
NextSession ==
    \/ Construct
    \/ \E p \in Providers \cup {"unknown"}, m \in Models \cup {None} : SwitchProvider(p, m)

SpecSession == InitEnv /\ [][NextSession]_vars

\* execute_tool applied to new sessions with every input and every
\* behaviour of the operating system and of the log files, together with
\* the other operations that write the transcript: chat and reset.
NextTool ==
    \/ /\ last_op \in {"construct", "tool"}
       /\ \E name \in ToolNames \cup {"unknown_tool"}, keys \in KeySets,
             transcript_ok \in BOOLEAN, actions_ok \in BOOLEAN :
               \E world \in WorldsOf(name) :
                 ExecuteTool(name, keys, world, transcript_ok, actions_ok)
    \/ \E m \in Messages : ChatCall(m)
    \/ ChatStep(FALSE)
    \/ Reset

SpecTool == Init /\ [][NextTool]_vars

(***************************************************************************)
(* The file tools: the write_file and read_file branches of execute_tool,  *)
(* with the text the model sends and the bytes on disk told apart.  A text *)
(* and the bytes of a file are sequences of characters; "CR" and "LF"      *)
(* stand for carriage return and line feed.                                *)
(***************************************************************************)
\* the texts write_file is called with, and the bytes a file may hold before
FileContents ==
    { <<>>, <<"a">>, <<"a", "LF", "b">>, <<"a", "CR", "LF", "b">>, <<"a", "CR">> }

\* os.linesep on the systems the agent runs on
LineSep == <<"LF">>

\* f.write(content) on a file opened with open(path, 'w'): text mode with
\* the default newline argument writes every "\n" as os.linesep and every
\* other character as it is
RECURSIVE WriteText(_)
WriteText(content) ==
    IF content = <<>> THEN <<>>
    ELSE (IF Head(content) = "LF" THEN LineSep ELSE <<Head(content)>>)
         \o WriteText(Tail(content))

\* f.read() on a file opened with open(path, 'r'): text mode with the
\* default newline argument reads "\r\n" and a lone "\r" as "\n"
RECURSIVE ReadText(_)
ReadText(bytes) ==
    IF bytes = <<>> THEN <<>>
    ELSE IF Head(bytes) = "CR"
         THEN <<"LF">> \o ReadText(IF Len(bytes) >= 2 /\ bytes[2] = "LF"
                                   THEN Tail(Tail(bytes)) ELSE Tail(bytes))
         ELSE <<Head(bytes)>> \o ReadText(Tail(bytes))

\* execute_tool("write_file", {path, content}): the file is created or
\* truncated and holds the written text
WriteFile(path, content) ==
    /\ pc = "idle"
    /\ fs' = [fs EXCEPT ![path] = WriteText(content)]
    /\ last_write' = [path |-> path, content |-> content]
    /\ read_result' = NoRead
    /\ UNCHANGED <<session_vars, server_vars, email_vars>>

\* execute_tool("read_file", {path}): {"content": text}, or {"error": text}
\* for the FileNotFoundError of a path that names no file
ReadFile(path) ==
    /\ pc = "idle"
    /\ read_result' = IF fs[path] = NoFile
                      THEN [kind |-> "error", path |-> path, content |-> <<>>]
                      ELSE [kind |-> "content", path |-> path,
                            content |-> ReadText(fs[path])]
    /\ UNCHANGED <<session_vars, server_vars, email_vars, fs, last_write>>

\* one session and the files under two paths, which hold anything or do not
\* exist when the session starts
InitFile ==
    /\ NewSession
    /\ provider = "anthropic" /\ model = "claude-3-opus"
    /\ anthropic_key /\ ~gemini_key
    /\ ServerIdle
    /\ EmailIdle
    /\ fs \in [Paths -> FileContents \cup {NoFile}]
    /\ last_write = NoWrite
    /\ read_result = NoRead

NextFile ==
    \/ \E path \in Paths, content \in FileContents : WriteFile(path, content)
    \/ \E path \in Paths : ReadFile(path)

SpecFile == InitFile /\ [][NextFile]_vars

(***************************************************************************)
(* The WebSocket server: one process, one asyncio event loop, the table    *)
(* agents, one handler coroutine per connection and the HTTP endpoints     *)
(* that act on a session.  Each handler owns the AIAgent object it built;  *)
(* the object is given here by its provider, its model, its conversation   *)
(* and the timestamp in the names of its two log files.  The environment   *)
(* __init__ reads is the one of the process.                               *)
(***************************************************************************)
\* variant: chat() runs outside the event loop, which stays free meanwhile
LoopFreeAlways == TRUE

\* code of a coroutine runs only while no synchronous call holds the loop
LoopFree == loop = None

\* variant: the server keeps one AIAgent object and hands it to every session
SetAgentShared(s, a) ==
    agent' = [t \in Sessions |-> IF t = s \/ t \in agents THEN a ELSE agent[t]]

\* an assignment to an attribute of the session's own AIAgent object
SetAgent(s, a) == agent' = [agent EXCEPT ![s] = a]

\* variant: the finally clause does not delete the entry
HandlerEndsLeavesEntry(s) ==
    /\ UNCHANGED <<agents, agent>>
    /\ conn' = [conn EXCEPT ![s] = Closed]

\* the handler leaves its try statement, by break or by an exception: the
\* finally clause deletes the entry and the coroutine ends
HandlerEnds(s) ==
    /\ agents' = agents \ {s}
    /\ agent' = [agent EXCEPT ![s] = NoAgent]
    /\ conn' = [conn EXCEPT ![s] = Closed]

\* AIAgent(api_key=API_KEY): log_file is None, so the names of the two log
\* files are made of the current second
NewAgent == [provider |-> provider, model |-> model,
             conversation_history |-> <<>>, log |-> now]

\* agent.switch_provider(new_provider, new_model)
SwitchedAgent(a, new_provider, new_model) ==
    IF CredentialOk(new_provider)
    THEN [a EXCEPT !.provider = new_provider,
                   !.model = IF new_model # None THEN new_model ELSE a.model]
    ELSE a

\* the parser of both load paths, ending in the assignment of the result
LoadedAgent(a, file) ==
    LET parsed == ParseTranscript(file.lines) IN
    IF file.exists /\ parsed.ok
    THEN [a EXCEPT !.conversation_history = parsed.conversation]
    ELSE a

\* GET /health: len(agents)
active_sessions == Cardinality(agents)

\* the connections whose handler coroutine has started and not ended
LiveConnections == {s \in Sessions : conn[s].handler \in {"waiting", "chatting"}}

Waiting(s) == conn[s].handler = "waiting" /\ LoopFree
Receives(s) == Waiting(s) /\ conn[s].client = "connected"

\* websocket_endpoint up to the try statement: accept, uuid4, AIAgent(),
\* agents[session_id] = agent; an exception of the constructor ends the
\* handler before there is an entry
Connect(s) ==
    /\ conn[s].handler = "none" /\ LoopFree
    /\ IF CredentialOk(provider)
       THEN /\ SetAgent(s, NewAgent)
            /\ agents' = agents \cup {s}
            \* the greeting is the first message sent
            /\ conn' = [conn EXCEPT ![s] = [handler |-> "waiting", client |-> "connected",
                                            sent |-> "system"]]
       ELSE /\ conn' = [conn EXCEPT ![s] = Closed]
            /\ UNCHANGED <<agents, agent>>
    /\ UNCHANGED <<loop, now, session_vars, file_vars, email_vars>>

\* the client closes the connection or is lost, at any time
ClientLeaves(s) ==
    /\ conn[s].client = "connected"
    /\ conn' = [conn EXCEPT ![s].client = "gone"]
    /\ UNCHANGED <<agents, agent, loop, now, session_vars, file_vars, email_vars>>

\* receive_text or send_json raises on the lost connection: the branch
\* "except WebSocketDisconnect" or "except Exception", then finally
Disconnected(s) ==
    /\ Waiting(s) /\ conn[s].client = "gone"
    /\ HandlerEnds(s)
    /\ UNCHANGED <<loop, now, session_vars, file_vars, email_vars>>

\* the message exit or quit: break, then finally
ReceiveExit(s) ==
    /\ Receives(s)
    /\ HandlerEnds(s)
    /\ UNCHANGED <<loop, now, session_vars, file_vars, email_vars>>

\* the message reset: agent.reset_conversation()
ReceiveReset(s) ==
    /\ Receives(s)
    /\ SetAgent(s, [agent[s] EXCEPT !.conversation_history = <<>>])
    /\ conn' = [conn EXCEPT ![s].sent = "system"]
    /\ UNCHANGED <<agents, loop, now, session_vars, file_vars, email_vars>>

\* the message /load_chat <chat_id>
ReceiveLoad(s, file) ==
    /\ Receives(s)
    /\ SetAgent(s, LoadedAgent(agent[s], file))
    \* "Loaded n messages", or "not found" / "Error loading chat"
    /\ conn' = [conn EXCEPT ![s].sent =
                   IF file.exists /\ ParseTranscript(file.lines).ok
                   THEN "system" ELSE "error"]
    /\ UNCHANGED <<agents, loop, now, session_vars, file_vars, email_vars>>

\* any other message: the status "processing" is sent and agent.chat(data)
\* is called, a synchronous call inside the coroutine; chat() appends the
\* user turn and goes to the provider
ReceiveChat(s, m) ==
    /\ Receives(s)
    \* room for the turns of the whole call
    /\ Len(agent[s].conversation_history) + 2 <= MaxTurns
    /\ SetAgent(s, [agent[s] EXCEPT !.conversation_history = Append(@, UserTurn(m))])
    /\ conn' = [conn EXCEPT ![s].handler = "chatting", ![s].sent = "status"]
    /\ loop' = s
    /\ UNCHANGED <<agents, now, session_vars, file_vars, email_vars>>

\* variant: an exception of chat() is not caught and ends the handler
ChatRaisesEndsSession(s) == HandlerEnds(s)

\* the inner "except Exception" of the handler: the error is sent and the
\* loop goes on
ChatRaises(s) ==
    /\ conn' = [conn EXCEPT ![s].handler = "waiting", ![s].sent = "error"]
    /\ UNCHANGED <<agents, agent>>

\* chat() returns a text, with the assistant turn appended, or raises; the
\* handler sends the message or the error and goes back to receive_text
ChatEnds(s) ==
    /\ conn[s].handler = "chatting" /\ loop = s
    /\ \/ \* return: {"type": "message", "content": response}
          /\ SetAgent(s, [agent[s] EXCEPT !.conversation_history =
                             Append(@, AssistantText("a"))])
          /\ conn' = [conn EXCEPT ![s].handler = "waiting", ![s].sent = "message"]
          /\ UNCHANGED agents
       \/ \* except Exception as e: {"type": "error", "content": "Error: ..."}
          ChatRaises(s)
    /\ loop' = None
    /\ UNCHANGED <<now, session_vars, file_vars, email_vars>>

\* POST /api/switch-provider with the session id s
HttpSwitch(s, new_provider, new_model) ==
    /\ LoopFree
    /\ IF s \in agents
       THEN SetAgent(s, SwitchedAgent(agent[s], new_provider, new_model))
       ELSE UNCHANGED agent     \* "Session not found"
    /\ UNCHANGED <<agents, conn, loop, now, session_vars, file_vars, email_vars>>

\* POST /api/chat-history/{chat_id}/load with the session id s
HttpLoad(s, file) ==
    /\ LoopFree
    /\ IF s \in agents
       THEN SetAgent(s, LoadedAgent(agent[s], file))
       ELSE UNCHANGED agent     \* "Invalid session"
    /\ UNCHANGED <<agents, conn, loop, now, session_vars, file_vars, email_vars>>

\* the wall clock reaches the next second
Tick ==
    /\ now = Seconds[1]
    /\ now' = Seconds[2]
    /\ UNCHANGED <<agents, agent, conn, loop, session_vars, file_vars, email_vars>>

\* the server process after import: both client libraries installed, the
\* anthropic key set, AI_PROVIDER one of the two providers that need a key
InitServer ==
    /\ Environment
    /\ provider \in {"anthropic", "gemini"} /\ model = "claude-3-opus"
    /\ anthropic_key /\ HAS_OPENAI /\ HAS_GEMINI
    /\ ServerIdle
    /\ EmailIdle
    /\ FilesUntouched

NextServer ==
    \/ \E s \in Sessions : Connect(s)
    \/ \E s \in Sessions : ClientLeaves(s)
    \/ \E s \in Sessions : Disconnected(s)
    \/ \E s \in Sessions : ReceiveExit(s)
    \/ \E s \in Sessions : ReceiveReset(s)
    \/ \E s \in Sessions, file \in Transcripts : ReceiveLoad(s, file)
    \/ \E s \in Sessions, m \in {"m1"} : ReceiveChat(s, m)
    \/ \E s \in Sessions : ChatEnds(s)
    \/ \E s \in Sessions, p \in Providers \cup {"unknown"},
          m \in {None, "gemini-2.0-flash-exp"} : HttpSwitch(s, p, m)
    \/ \E s \in Sessions, file \in Transcripts : HttpLoad(s, file)
    \/ Tick

SpecServer == InitServer /\ [][NextServer]_vars

\* The operations of a session that was built on the anthropic or the gemini
\* provider: whenever such a session is on ollama, a switch_provider put it
\* there.
InitSwitch == Init /\ provider # "ollama"

SpecSwitch == InitSwitch /\ [][Next]_vars

(***************************************************************************)
(* The email server: one EmailAIServer object with one AIAgent, polling an *)
(* IMAP inbox.  A header or a body is a sequence of tokens, a blank or a   *)
(* word; strip() and lower() act on the tokens as the string methods act   *)
(* on the characters.                                                      *)
(***************************************************************************)
Blank == " "
Range(t) == {t[i] : i \in 1..Len(t)}
First(t, x) == CHOOSE i \in 1..Len(t) : t[i] = x /\ \A j \in 1..(i - 1) : t[j] # x

\* str.strip()
Strip(t) ==
    LET inked == {i \in 1..Len(t) : t[i] # Blank} IN
    IF inked = {} THEN <<>>
    ELSE SubSeq(t, CHOOSE i \in inked : \A j \in inked : i <= j,
                   CHOOSE i \in inked : \A j \in inked : j <= i)

LowerWord(w) ==
    CASE w = "Alice" -> "alice"
      [] w = "ALICE@X.ORG" -> "alice@x.org"
      [] w = "Alice@X.org" -> "alice@x.org"
      [] w = "Eve" -> "eve"
      [] w = "Reset" -> "reset"
      [] OTHER -> w

\* str.lower()
Lower(t) == [i \in 1..Len(t) |-> LowerWord(t[i])]

\* AUTHORIZED_EMAILS, each entry stripped and lower-cased
authorized_emails == {Lower(Strip(<<Blank, "Alice@X.org">>))}

\* "Name <address>" gives the text between the first '<' and the first '>',
\* any other header the header itself, stripped and lower-cased
extract_email_address(from_header) ==
    IF "<" \in Range(from_header) /\ ">" \in Range(from_header)
    THEN Lower(Strip(SubSeq(from_header, First(from_header, "<") + 1,
                            First(from_header, ">") - 1)))
    ELSE Lower(Strip(from_header))

\* variant: a sender is authorized when an authorized address occurs
\* anywhere in the From header
is_authorized_anywhere(sender_email) ==
    \E a \in authorized_emails : Range(a) \subseteq Range(Lower(sender_email))

\* sender = self.extract_email_address(sender_email); sender in the list
is_authorized(sender_email) ==
    extract_email_address(sender_email) \in authorized_emails

\* the messages that arrive: [has_from, from, has_id, body]
Arrivals ==
    {[has_from |-> TRUE, from |-> <<"Alice", Blank, "<", "ALICE@X.ORG", ">">>,
      has_id |-> TRUE, body |-> <<"hi">>],
     [has_from |-> TRUE, from |-> <<"Alice", Blank, "<", "ALICE@X.ORG", ">">>,
      has_id |-> FALSE, body |-> <<"hi">>],
     [has_from |-> TRUE, from |-> <<Blank, "alice@x.org", Blank>>,
      has_id |-> TRUE, body |-> <<Blank, "Reset", Blank>>],
     [has_from |-> TRUE, from |-> <<Blank, "alice@x.org", Blank>>,
      has_id |-> TRUE, body |-> <<Blank>>],
     [has_from |-> TRUE, from |-> <<"Eve", Blank, "<", "eve@y.org", ">">>,
      has_id |-> TRUE, body |-> <<"hi">>],
     [has_from |-> TRUE, from |-> <<"alice@x.org", Blank, "<", "eve@y.org", ">">>,
      has_id |-> FALSE, body |-> <<"hi">>],
     [has_from |-> FALSE, from |-> <<>>,
      has_id |-> TRUE, body |-> <<"hi">>]}

\* the Message-ID of the k-th message of the inbox: unique when there is one
MessageId(k) == CASE k = 1 -> "id1" [] k = 2 -> "id2" [] k = 3 -> "id3" [] OTHER -> "id4"

\* a message as the IMAP server holds it: unseen, and nothing done with it
\* yet (passed: calls of process_message with its body, chats: calls of
\* agent.chat, replies: calls of send_email, reply: the text sent)
Delivered(a, k) ==
    [has_from |-> a.has_from, from |-> a.from,
     id |-> IF a.has_id THEN MessageId(k) ELSE None,
     body |-> a.body, seen |-> FALSE,
     passed |-> 0, chats |-> 0, replies |-> 0, reply |-> None]

\* check_inbox from message k on, in the order of the UNSEEN search result:
\* c is [inbox, processed_ids, new_messages].  fetch (RFC822) sets \Seen;
\* a message without From makes extract_email_address raise TypeError,
\* which the "except Exception" of check_inbox turns into "return []"
RECURSIVE check_from(_, _)
check_from(k, c) ==
    IF k > Len(c.inbox) THEN c
    ELSE IF c.inbox[k].seen THEN check_from(k + 1, c)
    ELSE
        LET mail == c.inbox[k]
            fetched == [c EXCEPT !.inbox[k].seen = TRUE]
        IN
        IF ~mail.has_from
        THEN [fetched EXCEPT !.new_messages = <<>>]
        ELSE IF ~is_authorized(mail.from)
        THEN check_from(k + 1, fetched)    \* store +FLAGS \Seen; continue
        ELSE IF mail.id \in c.processed_ids
        THEN check_from(k + 1, fetched)    \* continue
        ELSE IF Strip(mail.body) # <<>>
        THEN check_from(k + 1,
                 [fetched EXCEPT
                    !.new_messages = Append(@, [index |-> k, id |-> mail.id,
                                                body |-> Strip(mail.body),
                                                sender |-> extract_email_address(mail.from)]),
                    !.processed_ids = @ \cup {mail.id}])
        ELSE check_from(k + 1, fetched)

\* variant: process_message has no except clause, so a failure of chat()
\* leaves it as an exception
process_message_unguarded(message_text, chat_raises) ==
    IF Strip(Lower(message_text)) = <<"reset">>
    THEN [raised |-> FALSE, response |-> "Conversation reset", chats |-> 0,
          history |-> <<>>]
    ELSE IF chat_raises
    THEN [raised |-> TRUE, response |-> None, chats |-> 1,
          history |-> Append(email_history, [role |-> "user", content |-> message_text])]
    ELSE [raised |-> FALSE, response |-> "a", chats |-> 1,
          history |-> email_history \o <<[role |-> "user", content |-> message_text],
                                         [role |-> "assistant", content |-> <<"a">>]>>]

\* process_message: reset_conversation() for the text reset, else chat();
\* "except Exception" returns the text "Error: ..."
process_message(message_text, chat_raises) ==
    IF Strip(Lower(message_text)) = <<"reset">>
    THEN [raised |-> FALSE, response |-> "Conversation reset", chats |-> 0,
          history |-> <<>>]
    ELSE IF chat_raises
    THEN [raised |-> FALSE, response |-> "Error: e", chats |-> 1,
          history |-> Append(email_history, [role |-> "user", content |-> message_text])]
    ELSE [raised |-> FALSE, response |-> "a", chats |-> 1,
          history |-> email_history \o <<[role |-> "user", content |-> message_text],
                                         [role |-> "assistant", content |-> <<"a">>]>>]

\* a message reaches the inbox
Arrive(a) ==
    /\ Len(inbox) < MaxMails
    /\ inbox' = Append(inbox, Delivered(a, Len(inbox) + 1))
    /\ UNCHANGED <<processed_ids, new_messages, email_history,
                   session_vars, server_vars, file_vars>>

\* run(): messages = self.check_inbox(), at the start of a polling cycle
CheckInbox ==
    /\ new_messages = <<>>
    /\ LET c == check_from(1, [inbox |-> inbox, processed_ids |-> processed_ids,
                               new_messages |-> <<>>])
       IN /\ inbox' = c.inbox
          /\ processed_ids' = c.processed_ids
          /\ new_messages' = c.new_messages
    /\ UNCHANGED <<email_history, session_vars, server_vars, file_vars>>

\* run(): one pass of "for msg in messages": process_message, then
\* send_email, which returns True or False and never raises; an exception
\* would leave the for loop for the "except Exception" of run()
ProcessNext(chat_raises) ==
    /\ new_messages # <<>>
    /\ LET msg == Head(new_messages)
           r == process_message(msg.body, chat_raises)
       IN /\ email_history' = r.history
          /\ IF r.raised
             THEN /\ inbox' = [inbox EXCEPT ![msg.index].passed = @ + 1,
                                            ![msg.index].chats = @ + r.chats]
                  /\ new_messages' = <<>>
             ELSE /\ inbox' = [inbox EXCEPT ![msg.index].passed = @ + 1,
                                            ![msg.index].chats = @ + r.chats,
                                            ![msg.index].replies = @ + 1,
                                            ![msg.index].reply = r.response]
                  /\ new_messages' = Tail(new_messages)
    /\ UNCHANGED <<processed_ids, session_vars, server_vars, file_vars>>

\* the email server process after the constructor
InitEmail ==
    /\ NewSession
    /\ provider = "anthropic" /\ model = "claude-3-opus"
    /\ anthropic_key /\ ~gemini_key
    /\ ServerIdle
    /\ FilesUntouched
    /\ EmailIdle

NextEmail ==
    \/ \E a \in Arrivals : Arrive(a)
    \/ CheckInbox
    \/ \E chat_raises \in BOOLEAN : ProcessNext(chat_raises)

SpecEmail == InitEmail /\ [][NextEmail]_vars

(***************************************************************************)
(* Properties.                                                             *)
(***************************************************************************)
Last(h) == h[Len(h)]
TypedIds(turn, type) ==
    {turn.blocks[j].id : j \in {k \in 1..Len(turn.blocks) : turn.blocks[k].type = type}}
\* a chat() call has ended and no other operation has run since
Ended == pc = "idle" /\ outcome.kind # "none"
\* the active adapter of the call failed (or the connectivity test did)
PrimaryFailed == primary_error # NoError
\* _chat_anthropic is running or has run as the fallback of this call
FellBack == anthropic_starts > 0 /\ site # "385"
Replay == Append(pre_history, UserTurn(user_message))
IsPrefix(a, b) == Len(a) <= Len(b) /\ SubSeq(b, 1, Len(a)) = a

\* C1: every tool_result entry of the conversation carries the id of a
\* tool_use block of the assistant turn directly before the turn holding it.
C1_ResultIdsFromPrecedingTurn ==
    \A i \in 1..Len(conversation_history) :
        LET turn == conversation_history[i] IN
        TypedIds(turn, "tool_result") # {} =>
            /\ i > 1
            /\ conversation_history[i-1].role = "assistant"
            /\ TypedIds(turn, "tool_result")
                 \subseteq TypedIds(conversation_history[i-1], "tool_use")

C1_Witness ==
    /\ Len(conversation_history) >= 3
    /\ TypedIds(Last(conversation_history), "tool_result") = {"t1", "t2"}

\* C2: when no chat() is in progress, every assistant turn that holds tool
\* invocations is followed by a turn holding a result for each of them.
C2_NoDanglingInvocationWhenIdle ==
    pc = "idle" =>
        \A i \in 1..Len(conversation_history) :
            LET turn == conversation_history[i] IN
            (turn.role = "assistant" /\ TypedIds(turn, "tool_use") # {}) =>
                /\ i < Len(conversation_history)
                /\ TypedIds(turn, "tool_use")
                     \subseteq TypedIds(conversation_history[i+1], "tool_result")

\* C3: every chat() call that has started eventually returns or raises.
C3_ChatTerminates == (pc # "idle") ~> (pc = "idle")

\* C4: a chat() on the ollama provider whose adapter ran, whose provider
\* never failed and whose responses all carried tool calls ends by returning
\* "Maximum iterations reached" after exactly max_iterations requests and
\* without starting the fallback.
C4_OllamaStopsAtTenRequests ==
    (/\ Ended
     /\ provider = "ollama"
     /\ openai_messages # <<>>
     /\ primary_error \notin OllamaErrors \cup ConnectionErrors \cup {HealthCheckFailed}
     /\ ollama_all_tools)
    => /\ outcome = Returned("Maximum iterations reached")
       /\ ollama_requests = max_iterations
       /\ anthropic_starts = 0

\* C5 (as stated): when the active non-native adapter failed and the
\* Anthropic client exists, chat() returns the native adapter's final text.
C5_FallbackAlwaysReturns ==
    (Ended /\ PrimaryFailed /\ provider # "anthropic" /\ anthropic_client)
    => /\ outcome.kind = "returned"
       /\ outcome.text = FinalText(Last(conversation_history).blocks)

\* C5 (amended): in that case the native adapter is run on the same user
\* turn; if chat() returns, it returns the final text of the native
\* adapter's last response, and if it raises, it raises a failure of the
\* native adapter, never the failure of the primary.
C5_FallbackReturnsNativeTextOrNativeFailure ==
    (Ended /\ PrimaryFailed /\ provider # "anthropic" /\ anthropic_client)
    => /\ FellBack
       /\ IsPrefix(Replay, conversation_history)
       /\ outcome.kind = "returned" =>
            /\ Last(conversation_history).role = "assistant"
            /\ Last(conversation_history).kind = "list"
            /\ response.stop_reason = "end_turn"
            /\ Last(conversation_history).blocks = response.content
            /\ outcome.text = FinalText(Last(conversation_history).blocks)
       /\ outcome.kind = "raised" => outcome.error \in AnthropicErrors

C5_Witness ==
    /\ Ended /\ PrimaryFailed /\ provider = "gemini" /\ anthropic_client
    /\ outcome = Returned("a")

\* C6: in one chat() call the fallback adapter is started at most once.
C6_SecondaryStartedAtMostOnce == anthropic_starts <= 1

\* C7: whenever the fallback adapter starts, the conversation it is about to
\* send is the conversation before the call followed by the user turn.
C7_SecondarySendsReplay ==
    (pc = "anthropic" /\ FellBack /\ run_fresh) => conversation_history = Replay

\* C8: no step of a chat() call, its first and its last included, changes
\* the provider or the model, and a chat() call always enters the adapter
\* of the session's provider.
C8_ChatKeepsIdentity ==
    [][(pc # "idle" \/ pc' # "idle") =>
          /\ provider' = provider
          /\ model' = model
          /\ pc = "idle" =>
               pc' = (CASE provider = "anthropic" -> "anthropic"
                        [] provider = "gemini" -> "gemini"
                        [] provider = "ollama" -> "health")]_vars

C8_Witness ==
    /\ Ended /\ FellBack /\ outcome.kind = "returned"
    /\ provider = "gemini" /\ model = "gemini-2.0-flash-exp"

\* C9 (as stated): without an Anthropic client, chat() raises the very
\* failure the active adapter raised.
C9_FailureSurfacedUnchanged ==
    (Ended /\ PrimaryFailed /\ ~anthropic_client) => outcome = Raised(primary_error)

\* C9 (amended): without an Anthropic client, chat() raises the adapter's
\* failure itself on the gemini provider, and on the ollama provider a new
\* exception built around the text of the failure (of the health check or of
\* the adapter).
C9_FailureSurfacedOrWrapped ==
    (Ended /\ PrimaryFailed /\ ~anthropic_client)
    => /\ outcome.kind = "raised"
       /\ anthropic_starts = 0
       /\ provider = "gemini" => outcome.error = primary_error
       /\ provider = "ollama" =>
            outcome.error = [msg |-> primary_error.msg, wrapped |-> TRUE]

C9_Witness ==
    /\ Ended /\ ~anthropic_client /\ provider = "ollama"
    /\ primary_error = HealthCheckFailed
    /\ outcome.kind = "raised"

\* C10: a fallback run exists only with the Anthropic credential and client
\* and a non-native provider, after a failure only the native adapter runs,
\* and on the native provider a failure ends the call with that failure
\* after a single run.
C10_FallbackOnlyNativeWithCredential ==
    /\ FellBack => (anthropic_key /\ anthropic_client /\ provider # "anthropic")
    /\ (pc # "idle" /\ PrimaryFailed) => (pc = "anthropic" /\ anthropic_client)
    /\ (provider = "anthropic" /\ (pc # "idle" \/ Ended)) =>
          /\ anthropic_starts = 1
          /\ site = "385"
          /\ PrimaryFailed => (pc = "idle" /\ outcome = Raised(primary_error))

C10_Witness ==
    /\ Ended /\ provider = "anthropic"
    /\ outcome.kind = "raised"

C12_OnlyResetRemovesTurns ==
    [][IsPrefix(conversation_history, conversation_history') \/ last_op' = "reset"]_vars

\* C12 as the code has it: turns are removed or replaced only by reset(),
\* which empties the conversation, and by a successful load of a stored
\* chat, which replaces it by the messages parsed from the transcript.
C12_OnlyResetAndLoadReplaceTurns ==
    [][\/ IsPrefix(conversation_history, conversation_history')
       \/ last_op' = "reset" /\ conversation_history' = <<>>
       \/ /\ last_op' = "load_ok"
          /\ \E file \in Transcripts :
                /\ file.exists
                /\ conversation_history' = ParseTranscript(file.lines).conversation]_vars

\* a stored chat has been loaded into the session
C12_Witness ==
    /\ last_op = "load_ok"
    /\ conversation_history =
          <<UserTurn("m1\nTOOL: run_bash"), AssistantText("g")>>

(***************************************************************************)
(* C13: reset() leaves the conversation empty and the provider and model   *)
(* as they were; a reset() that follows a reset() changes neither the      *)
(* conversation nor the provider and model.                                *)
(***************************************************************************)
C13_ResetEmptiesAndKeepsIdentity ==
    [][last_op' = "reset" =>
         /\ conversation_history' = <<>>
         /\ provider' = provider /\ model' = model
         /\ (last_op = "reset" =>
                UNCHANGED <<conversation_history, provider, model>>)]_vars

\* reset() has run on a session that is not on the default model
C13_Witness ==
    /\ last_op = "reset"
    /\ conversation_history = <<>>
    /\ model = "claude-3-opus"

(***************************************************************************)
(* C14: after any operations followed by reset(), everything a chat() call *)
(* reads has the value it has in a newly constructed session with the same *)
(* provider and model: the conversation is empty, no call is in progress,  *)
(* the construction of that session succeeds, the native client exists     *)
(* exactly when its credential does, and the Gemini client of a gemini     *)
(* session is built for the session's model.  The steps of chat() are      *)
(* functions of these values, the message and the provider's answers, so   *)
(* the requests sent and the conversation left are those of the new        *)
(* session.                                                                *)
(***************************************************************************)
C14_ResetStateIsFreshSessionState ==
    last_op = "reset" =>
        /\ conversation_history = <<>>
        /\ pc = "idle"
        /\ CredentialOk(provider)
        /\ anthropic_client = anthropic_key
        /\ provider = "gemini" => gemini_client = model
        /\ <<site, user_message, pre_history, outcome, primary_error, anthropic_starts,
             run_fresh, response, produced, iteration, openai_messages,
             ollama_requests, ollama_all_tools>>
           = <<"none", None, <<>>, NoOutcome, NoError, 0, FALSE, NoResponse, <<>>, 0,
               <<>>, 0, TRUE>>

\* reset() ran on a session that was switched away from gemini: it differs
\* from a new anthropic session only in the client it no longer uses
C14_Witness ==
    /\ last_op = "reset"
    /\ provider = "anthropic"
    /\ gemini_client # None

(***************************************************************************)
(* C15: a switch_provider(p, m) that raises (p unknown, its credential     *)
(* missing or its client library missing) leaves provider and model as     *)
(* they were; one that returns leaves provider = p and model = m, or the   *)
(* previous model when m is omitted.  It raises exactly in those cases.    *)
(***************************************************************************)
C15_SwitchIsAtomic ==
    [][\A p \in Providers \cup {"unknown"}, m \in Models \cup {None} :
         SwitchProvider(p, m) =>
           /\ last_op' \in {"switch_ok", "switch_raised"}
           /\ last_op' = "switch_raised" <=>
                 \/ p \notin Providers
                 \/ p = "anthropic" /\ ~anthropic_key
                 \/ p = "gemini" /\ (~gemini_key \/ ~HAS_GEMINI)
                 \/ p = "ollama" /\ ~HAS_OPENAI
           /\ last_op' = "switch_raised" => provider' = provider /\ model' = model
           /\ last_op' = "switch_ok" =>
                 /\ provider' = p
                 /\ model' = IF m = None THEN model ELSE m]_vars

\* a switch has failed on an anthropic session that can go nowhere else
C15_Witness ==
    /\ last_op = "switch_raised"
    /\ provider = "anthropic"
    /\ ~HAS_OPENAI /\ ~gemini_key

(***************************************************************************)
(* C16: a construction whose provider lacks its credential fails, and      *)
(* every session that exists, after its construction and any switches,     *)
(* successful or failed, holds the credential its provider requires.       *)
(***************************************************************************)
C16_ActiveProviderHasCredential ==
    /\ pc \notin {"new", "failed"} =>
          /\ provider = "anthropic" => anthropic_key
          /\ provider = "gemini" => gemini_key
    /\ last_op = "construct_raised" => pc = "failed"
    /\ (/\ last_op \in {"construct", "construct_raised"}
        /\ \/ provider = "anthropic" /\ ~anthropic_key
           \/ provider = "gemini" /\ ~gemini_key) => pc = "failed"

\* a gemini session exists after a switch to anthropic failed for its key
C16_Witness ==
    /\ pc = "idle"
    /\ last_op = "switch_raised"
    /\ provider = "gemini"
    /\ ~anthropic_key

(***************************************************************************)
(* C17: execute_tool never raises and every failure (unknown tool name,    *)
(* missing argument, missing or unreadable file, timeout) comes back as    *)
(* {error: text}.  A tool name outside the five tools breaks it: the       *)
(* function ends without a return statement and the caller gets None.      *)
(***************************************************************************)
ToolCallFails ==
    \/ tool_call.name \notin ToolNames
    \/ ~(RequiredKeys(tool_call.name) \subseteq tool_call.keys)
    \/ tool_call.world \in {"timeout", "os error"}

C17_ToolFailuresReturnError ==
    last_op = "tool" =>
        /\ tool_result.kind \in {"output", "error"}
        /\ ToolCallFails => tool_result.kind = "error"

(***************************************************************************)
(* C18: a tool round of the native adapter whose tools fail goes on like   *)
(* any other: no fallback run starts, chat() does not end, the assistant   *)
(* turn is followed by one result per invocation, in order and under the   *)
(* invocation's id, and the adapter is at its next request.                *)
(***************************************************************************)
C18_ToolRoundContinues ==
    [][(/\ pc = "anthropic"
        /\ conversation_history' # conversation_history
        /\ response'.stop_reason = "tool_use") =>
          LET uses == ToolUses(response'.content)
              results == Last(conversation_history')
          IN
          /\ pc' = "anthropic" /\ site' = site
          /\ anthropic_starts' = anthropic_starts
          /\ outcome' = NoOutcome
          /\ conversation_history' =
                conversation_history \o <<AssistantBlocks(response'.content), results>>
          /\ results.role = "user" /\ Len(results.blocks) = Len(uses)
          /\ \A i \in 1..Len(uses) :
                /\ results.blocks[i].type = "tool_result"
                /\ results.blocks[i].id = uses[i].id
                /\ results.blocks[i].content \in ToolOutputs]_vars

\* the adapter is about to send its next request after a round in which a
\* tool ended in an error
C18_Witness ==
    /\ pc = "anthropic" /\ ~run_fresh
    /\ response.stop_reason = "tool_use"
    /\ outcome = NoOutcome
    /\ \E i \in 1..Len(Last(conversation_history).blocks) :
          Last(conversation_history).blocks[i].content = "error"

(***************************************************************************)
(* C19: every execute_tool call whose log files can be written, whatever   *)
(* the tool and whether it returns an output or an error, leaves an entry  *)
(* in the transcript log and an entry in the actions log.  The calls that  *)
(* end in an error, or name no tool, write neither.                        *)
(***************************************************************************)
C19_EveryToolCallLogged ==
    (/\ last_op = "tool"
     /\ tool_call.transcript_ok /\ tool_call.actions_ok) =>
        /\ transcript # <<>>
        /\ actions # <<>>

(***************************************************************************)
(* C20: a failed write to the transcript or actions log is not raised to   *)
(* the caller of execute_tool, chat or reset, and changes neither what     *)
(* they return nor the conversation: execute_tool returns what its branch  *)
(* computed, chat() goes on with the user turn appended, reset() returns   *)
(* with the conversation emptied.                                          *)
(***************************************************************************)
C20_LogFailureChangesNothing ==
    /\ last_op = "tool" =>
          tool_result = ToolOutcome(tool_call.name, tool_call.keys, tool_call.world)
    /\ outcome.error # LogError
    /\ last_op = "chat" => IsPrefix(Replay, conversation_history)
    /\ last_op # "reset_raised"
    /\ last_op = "reset" => conversation_history = <<>>

\* a command ran while neither log file could be written
C20_Witness ==
    /\ last_op = "tool"
    /\ ~tool_call.transcript_ok /\ ~tool_call.actions_ok
    /\ tool_result = Output("exit nonzero")
    /\ transcript = <<>> /\ actions = <<>>

(***************************************************************************)
(* C21: when the gemini adapter succeeds, chat() has made the one          *)
(* generate_content request and no other, has executed no tool, has        *)
(* appended exactly one assistant turn holding the response text, and      *)
(* returns that text.  An empty response text breaks the last two parts.   *)
(***************************************************************************)
\* chat() has returned out of _chat_gemini's try block
GeminiSucceeded ==
    /\ Ended /\ outcome.kind = "returned"
    /\ provider = "gemini" /\ ~PrimaryFailed

C21_GeminiReturnsResponseText ==
    GeminiSucceeded =>
        LET text == response.content[1].text IN
        /\ anthropic_starts = 0 /\ executed = <<>>
        /\ conversation_history = Append(Replay, AssistantText(text))
        /\ outcome.text = text

\* C21 as the code has it: before the request nothing has been received or
\* appended; after it the one turn appended and the value returned hold the
\* response text, or the apology when the response text is empty.
C21_GeminiReturnsTextOrApology ==
    /\ pc = "gemini" =>
          /\ response = NoResponse /\ executed = <<>>
          /\ conversation_history = Replay
    /\ GeminiSucceeded =>
          LET text == response.content[1].text
              reply == IF text = ""
                       THEN "I apologize, but I couldn't generate a response."
                       ELSE text
          IN
          /\ Len(response.content) = 1
          /\ anthropic_starts = 0 /\ executed = <<>>
          /\ conversation_history = Append(Replay, AssistantText(reply))
          /\ outcome.text = reply

\* the gemini adapter succeeded with an empty response text, after earlier turns
C21_Witness ==
    /\ GeminiSucceeded
    /\ response.content[1].text = ""
    /\ pre_history # <<>>

(***************************************************************************)
(* C22: in a round of the native adapter whose response has stop reason    *)
(* tool_use, execute_tool is called once for each tool_use block of the    *)
(* response, in block order; one user turn is appended holding exactly one *)
(* tool_result per call, under the block's id and in the same order; and   *)
(* whenever the adapter stands before its next request after such a        *)
(* response, that turn is the last turn of the conversation.               *)
(***************************************************************************)
C22_EachToolUseExecutedOnce ==
    /\ [][(/\ pc = "anthropic"
           /\ conversation_history' # conversation_history
           /\ response'.stop_reason = "tool_use") =>
             LET content == response'.content
                 blocks == {i \in 1..Len(content) : content[i].type = "tool_use"}
                 results == Last(conversation_history')
                 n == Len(conversation_history)
             IN
             /\ Len(executed') = Cardinality(blocks)
             /\ \A i \in blocks :
                   executed'[Cardinality({j \in blocks : j <= i})] = content[i]
             /\ Len(conversation_history') = n + 2
             /\ SubSeq(conversation_history', 1, n) = conversation_history
             /\ conversation_history'[n + 1] = AssistantBlocks(content)
             /\ results.role = "user" /\ results.kind = "list"
             /\ Len(results.blocks) = Len(executed')
             /\ \A i \in 1..Len(executed') :
                   /\ results.blocks[i].type = "tool_result"
                   /\ results.blocks[i].id = executed'[i].id
             /\ pc' = "anthropic" /\ outcome' = NoOutcome]_vars
    /\ [](pc = "anthropic" /\ response.stop_reason = "tool_use" =>
             LET results == Last(conversation_history) IN
             /\ results.role = "user" /\ results.kind = "list"
             /\ Len(results.blocks) = Len(executed)
             /\ \A i \in 1..Len(executed) :
                   results.blocks[i].id = executed[i].id)

\* the adapter stands before its next request after a response with two
\* tool_use blocks, both executed
C22_Witness ==
    /\ pc = "anthropic" /\ response.stop_reason = "tool_use"
    /\ Len(executed) = 2
    /\ executed[1].id = "t1" /\ executed[2].id = "t2"
    /\ Last(conversation_history).blocks[2].id = "t2"

(***************************************************************************)
(* C23: when chat() returns out of the end_turn branch of the native       *)
(* adapter, the value returned is the texts of the text blocks of that     *)
(* last response, joined in block order, and "Task completed" when that is *)
(* empty; text of the responses of earlier rounds is not part of it.       *)
(***************************************************************************)
TextOf(block) == IF block.type = "text" THEN block.text ELSE ""
JoinedTexts(content) ==
    CASE Len(content) = 0 -> ""
      [] Len(content) = 1 -> TextOf(content[1])
      [] Len(content) = 2 -> TextOf(content[1]) \o TextOf(content[2])
      [] Len(content) = 3 ->
            TextOf(content[1]) \o TextOf(content[2]) \o TextOf(content[3])

C23_EndTurnReturnsFinalTexts ==
    (Ended /\ outcome.kind = "returned" /\ response.stop_reason = "end_turn") =>
        /\ Len(response.content) <= 3
        /\ Last(conversation_history) = AssistantBlocks(response.content)
        /\ outcome.text = IF JoinedTexts(response.content) = ""
                          THEN "Task completed"
                          ELSE JoinedTexts(response.content)

\* chat() returned the two texts of the last response after a tool round
\* whose response carried text as well
C23_Witness ==
    /\ Ended /\ outcome.kind = "returned" /\ response.stop_reason = "end_turn"
    /\ Len(produced) = 3
    /\ produced[1].blocks[1] = TextBlock("a")
    /\ produced[2].role = "user"
    /\ outcome.text = "ab"

(***************************************************************************)
(* C29: a run_bash call whose command outlives the 60 second timeout of    *)
(* subprocess.run returns {"error": "Command timed out after 60 seconds"}: *)
(* execute_tool returns this value to its caller and raises nothing,       *)
(* whatever the log files do.                                              *)
(***************************************************************************)
C29_TimeoutReturnsError ==
    (/\ last_op = "tool"
     /\ tool_call.name = "run_bash" /\ "command" \in tool_call.keys
     /\ tool_call.world = "timeout") =>
        /\ tool_result = [kind |-> "error",
                          text |-> "Command timed out after 60 seconds"]
        /\ pc = "idle" /\ outcome = NoOutcome

\* a run_bash command ran into the timeout while the logs could not be written
C29_Witness ==
    /\ last_op = "tool"
    /\ tool_call.name = "run_bash" /\ tool_call.keys = {"command"}
    /\ tool_call.world = "timeout"
    /\ ~tool_call.transcript_ok
    /\ tool_result.kind = "error"

(***************************************************************************)
(* C30: read_file(path) after write_file(path, content), with no write in  *)
(* between, returns exactly content, whatever the file held before.        *)
(***************************************************************************)
C30_ReadReturnsWhatWasWritten ==
    (read_result.kind # "none" /\ read_result.path = last_write.path) =>
        /\ read_result.kind = "content"
        /\ read_result.content = last_write.content

(***************************************************************************)
(* C24: a chat, reset, switch_provider or history load on one session of   *)
(* the server, by a WebSocket message or by an HTTP request, leaves the    *)
(* conversation, the provider and the model of every other session as they *)
(* were; so does the start and the end of another session's connection.    *)
(***************************************************************************)
OperationOn(s) ==
    \/ ReceiveReset(s)
    \/ \E m \in Messages : ReceiveChat(s, m)
    \/ ChatEnds(s)
    \/ \E file \in Transcripts : ReceiveLoad(s, file) \/ HttpLoad(s, file)
    \/ \E p \in Providers \cup {"unknown"}, m \in Models \cup {None} :
          HttpSwitch(s, p, m)
    \/ Connect(s)
    \/ ReceiveExit(s)
    \/ Disconnected(s)

\* a step that changes the agent of a session is no operation on another one
C24_OtherSessionsUntouched ==
    [][\A t \in Sessions :
          agent'[t] # agent[t] => \A s \in Sessions \ {t} : ~OperationOn(s)]_vars

\* two live sessions that differ in provider, model and conversation, one of
\* them inside chat()
C24_Witness ==
    /\ agents = Sessions
    /\ agent["s1"].provider = "gemini" /\ agent["s2"].provider = "anthropic"
    /\ agent["s1"].model # agent["s2"].model
    /\ conn["s1"].handler = "chatting"
    /\ Len(agent["s2"].conversation_history) = 2

(***************************************************************************)
(* C25: two sessions of one server process never have the same transcript  *)
(* log file or the same actions log file.                                  *)
(***************************************************************************)
C25_SessionsHaveDistinctLogFiles ==
    \A s \in agents, t \in agents :
        s # t => agent[s].log # agent[t].log

(***************************************************************************)
(* C26: while one session is inside chat(), a message that has arrived on  *)
(* the connection of another session can be received and processed.        *)
(***************************************************************************)
C26_OtherSessionServedDuringChat ==
    \A s \in Sessions, t \in Sessions :
        (/\ s # t
         /\ conn[s].handler = "chatting"
         /\ conn[t].handler = "waiting" /\ conn[t].client = "connected") =>
            ENABLED (\/ ReceiveReset(t)
                     \/ ReceiveExit(t)
                     \/ \E m \in Messages : ReceiveChat(t, m)
                     \/ \E file \in Transcripts : ReceiveLoad(t, file))

(***************************************************************************)
(* C27: at most one chat() runs in the server at any time, so at most one  *)
(* on each session, and it holds the event loop; while it runs, the        *)
(* session's provider, model and conversation are changed by nothing but   *)
(* the chat() itself: no reset, load or switch_provider of a WebSocket     *)
(* message or an HTTP request takes effect before it has ended.            *)
(***************************************************************************)
C27_ChatRunsAlone ==
    /\ [](/\ Cardinality({s \in Sessions : conn[s].handler = "chatting"}) <= 1
          /\ \A s \in Sessions : conn[s].handler = "chatting" => loop = s)
    /\ [][\A s \in Sessions :
             conn[s].handler = "chatting" =>
                \/ agent'[s] = agent[s] /\ agents' = agents
                \/ /\ conn'[s].handler = "waiting"
                   /\ agent'[s].provider = agent[s].provider
                   /\ agent'[s].model = agent[s].model
                   /\ agent'[s].log = agent[s].log
                   /\ IsPrefix(agent[s].conversation_history,
                               agent'[s].conversation_history)]_vars

\* a session is inside chat() while the other session has a message waiting
\* and a history that a reset would empty
C27_Witness ==
    /\ conn["s1"].handler = "chatting" /\ loop = "s1"
    /\ conn["s2"].handler = "waiting" /\ conn["s2"].client = "connected"
    /\ agent["s2"].conversation_history # <<>>
    /\ agent["s1"].provider = "ollama"

(***************************************************************************)
(* C28: the table agents holds the id of a connection exactly while its    *)
(* handler runs with the agent it built: from the construction of the      *)
(* agent to the end of the handler by exit or quit, by the loss of the     *)
(* client or by an error; a connection whose constructor raised never has  *)
(* an entry; the count of /health is the number of running handlers.       *)
(***************************************************************************)
C28_TableHoldsLiveSessions ==
    /\ agents = LiveConnections
    /\ active_sessions = Cardinality(LiveConnections)
    /\ \A s \in Sessions :
          conn[s].handler \in {"none", "ended"} => agent[s] = NoAgent

\* one handler has ended after serving its session, the other is inside chat()
\* on a connection the client has left
C28_Witness ==
    /\ CredentialOk(provider)
    /\ conn["s1"].handler = "ended"
    /\ conn["s2"] = [handler |-> "chatting", client |-> "gone", sent |-> "status"]
    /\ agents = {"s2"}

(***************************************************************************)
(* C31: loading a transcript that exists gives the conversation one turn   *)
(* for each line with a USER or AGENT prefix, timestamped or not, in file  *)
(* order and with the role of the prefix, and appends every other          *)
(* non-empty line that follows a turn to the text of that turn.            *)
(***************************************************************************)
RECURSIVE ReplayAsStated(_, _, _)
ReplayAsStated(lines, i, conv) ==
    IF i > Len(lines) THEN conv
    ELSE LET line == lines[i]
             n == Len(conv)
         IN
         CASE line.mark = "blank" ->
                ReplayAsStated(lines, i + 1, conv)
           [] line.mark \in {"ts_user", "user"} ->
                ReplayAsStated(lines, i + 1, Append(conv, UserTurn(line.text)))
           [] line.mark \in {"ts_agent", "assistant"} ->
                ReplayAsStated(lines, i + 1, Append(conv, AssistantText(line.text)))
           [] OTHER ->
                ReplayAsStated(lines, i + 1,
                    IF n = 0 THEN conv
                    ELSE [conv EXCEPT ![n].text = @ \o "\n" \o line.text])

C31_ReplayYieldsTurnPerPrefixedLine ==
    [][\A file \in Transcripts :
          (file.exists /\ LoadHistory(file)) =>
              conversation_history' = ReplayAsStated(file.lines, 1, <<>>)]_vars

(***************************************************************************)
(* C32: a chat() on the ollama provider whose connectivity test passed and *)
(* whose provider failed no request never starts the native adapter, and   *)
(* ends by returning the content of the provider's last message.           *)
(***************************************************************************)
C32_OllamaAnswersWithoutNative ==
    (/\ last_op = "chat" /\ provider = "ollama"
     /\ pc # "health"
     /\ primary_error \notin OllamaErrors \cup ConnectionErrors \cup {HealthCheckFailed})
    => /\ anthropic_starts = 0
       /\ ~FellBack
       /\ Ended => /\ outcome.kind = "returned"
                   /\ ollama_requests > 0

(***************************************************************************)
(* C33: when chat(m) has raised, the user turn m is still in the           *)
(* conversation, and the conversation the next chat() sends holds m        *)
(* followed directly by the new user turn.                                 *)
(***************************************************************************)
ChatRaised == Ended /\ last_op = "chat" /\ outcome.kind = "raised"

C33_RaisedTurnDirectlyBeforeNext ==
    /\ [](ChatRaised => IsPrefix(Replay, conversation_history))
    /\ [][(ChatRaised /\ pc' # "idle") =>
             conversation_history' = Replay \o <<UserTurn(user_message')>>]_vars

\* C33 as the code has it: nothing is rolled back, neither the user turn m
\* nor the assistant and tool-result turns the adapters appended before the
\* failure, and the next chat() appends its user turn after all of them.
C33_RaisedCallKeepsAllItsTurns ==
    /\ [](ChatRaised =>
             /\ conversation_history = Replay \o produced
             /\ \A i \in 1..Len(produced) :
                   produced[i].role = "assistant" \/ produced[i].kind = "list")
    /\ [][(ChatRaised /\ pc' # "idle") =>
             /\ conversation_history' =
                   Replay \o produced \o <<UserTurn(user_message')>>
             /\ pre_history' = Replay \o produced]_vars

\* a chat() raised after a tool round, and the next chat() has begun
C33_Witness ==
    /\ pc # "idle" /\ last_op = "chat"
    /\ Len(pre_history) = 3
    /\ pre_history[1].role = "user" /\ pre_history[1].kind = "str"
    /\ pre_history[2].role = "assistant"
    /\ pre_history[3].kind = "list" /\ pre_history[3].role = "user"
    /\ conversation_history = Append(pre_history, UserTurn(user_message))

(***************************************************************************)
(* C34: switch_provider leaves the conversation as it was, whether it      *)
(* succeeds or raises, and the chat() that follows a successful switch     *)
(* sends the turns recorded before to the new provider: the request to the *)
(* new provider is made, from a conversation that holds those turns and    *)
(* the new user turn.                                                      *)
(***************************************************************************)
C34_SwitchKeepsTurnsForNewProvider ==
    /\ [][\A p \in Providers \cup {"unknown"}, m \in Models \cup {None} :
             SwitchProvider(p, m) => conversation_history' = conversation_history]_vars
    /\ [](/\ (pc = "gemini" \/ (pc = "anthropic" /\ run_fresh)) =>
                conversation_history = Replay
          /\ pc = "ollama" =>
                /\ ollama_client
                /\ \A i \in 1..Len(pre_history) :
                      \E j \in 1..Len(openai_messages) :
                          openai_messages[j] = pre_history[i])

\* the handler of s leaves agent.chat(data) without an assistant turn: the
\* call raised
ChatRaisedIn(s) ==
    /\ conn[s].handler = "chatting"
    /\ conn'[s].handler # "chatting"
    /\ agent'[s].conversation_history #
           Append(agent[s].conversation_history, AssistantText("a"))

\* C35: an exception raised by chat() in the handler of a session is
\* reported to the client as a message of type error and does not end the
\* session: the session stays in the table agents, its AIAgent object keeps
\* its conversation, and the handler is back at receive_text, where it
\* takes the next message of a connected client as soon as the loop is free.
C35_ChatErrorKeepsSession ==
    /\ [][\A s \in Sessions :
            ChatRaisedIn(s) =>
                /\ s \in agents'
                /\ agent'[s] = agent[s]
                /\ conn'[s].handler = "waiting"
                /\ conn'[s].sent = "error"]_vars
    /\ [](\A s \in Sessions :
            (conn[s].handler = "waiting" /\ conn[s].sent = "error"
               /\ conn[s].client = "connected" /\ LoopFree)
            => (s \in agents /\ ENABLED ReceiveReset(s)))

\* the chat of s1 raised after its user turn was appended; the error went to
\* the connected client and the session is still registered
C35_Witness ==
    /\ "s1" \in agents
    /\ conn["s1"] = [handler |-> "waiting", client |-> "connected", sent |-> "error"]
    /\ agent["s1"].conversation_history = <<UserTurn("m1")>>

\* the sender address extracted from the From header of a message is in the
\* authorized list
FromAuthorized(mail) == mail.has_from /\ extract_email_address(mail.from) \in authorized_emails
\* the message was passed to the agent or answered, or waits for that in the
\* list run() iterates
ReachedAgent(k) ==
    \/ inbox[k].passed > 0 \/ inbox[k].chats > 0 \/ inbox[k].replies > 0
    \/ \E j \in 1..Len(new_messages) : new_messages[j].index = k

\* C36: the email server passes a message to the agent (chat or reset) and
\* sends a reply only when the sender address extracted from its From header
\* is in the authorized list, and the reply goes to that address; a message
\* of any other sender never reaches the agent, and a polling cycle that
\* gets to such a message marks it as read.
C36_OnlyAuthorizedSendersReachAgent ==
    /\ [](\A k \in 1..Len(inbox) : ReachedAgent(k) => FromAuthorized(inbox[k]))
    /\ [](\A j \in 1..Len(new_messages) : new_messages[j].sender \in authorized_emails)
    /\ [][CheckInbox =>
            \A k \in 1..Len(inbox) :
                (/\ ~FromAuthorized(inbox[k])
                 /\ \A i \in 1..k : inbox[i].seen \/ inbox[i].has_from)
                => inbox'[k].seen /\ ~ReachedAgent(k)']_vars

\* a message whose display name is an authorized address but whose address
\* is not has been read and left alone, and a message of the authorized
\* sender, written in upper case, has been answered
C36_Witness ==
    \E k, n \in 1..Len(inbox) :
        /\ inbox[k].from = <<"alice@x.org", Blank, "<", "eve@y.org", ">">>
        /\ inbox[k].seen /\ ~ReachedAgent(k)
        /\ inbox[n].from = <<"Alice", Blank, "<", "ALICE@X.ORG", ">">>
        /\ inbox[n].replies = 1

\* a polling cycle has fetched the message, which has a non-empty body and
\* an authorized sender
Eligible(mail) == mail.seen /\ FromAuthorized(mail) /\ Strip(mail.body) # <<>>

\* C37: across polling cycles each unread message with a non-empty body
\* from an authorized sender is passed to the agent exactly once and gets
\* exactly one reply attempt, never twice and never dropped, messages
\* without a Message-ID included: once a cycle has fetched such a message it
\* waits in the list of run() or has been passed and answered once.  Stated
\* for inboxes in which every message has a From header, so that no cycle
\* ends in the except clause of check_inbox.
C37_EachMessageExactlyOnce ==
    (\A i \in 1..Len(inbox) : inbox[i].has_from) =>
        \A k \in 1..Len(inbox) :
            /\ inbox[k].passed <= 1 /\ inbox[k].replies <= 1
            /\ Eligible(inbox[k]) =>
                  \/ \E j \in 1..Len(new_messages) : new_messages[j].index = k
                  \/ inbox[k].passed = 1 /\ inbox[k].replies = 1

\* run() passes the first message of its list to process_message
PassesHead(k) ==
    /\ new_messages # <<>>
    /\ Head(new_messages).index = k
    /\ inbox'[k].passed = inbox[k].passed + 1

\* C38: process_message never raises.  Whenever run() passes a message to
\* it, a reply is attempted and run() goes on with the rest of its list; a
\* body whose stripped, lower-cased text is reset empties the conversation
\* of the shared agent without a call of chat() and is answered with the
\* reset notice; any other body is one call of chat(), answered with its
\* text or, when chat() raised, with the text "Error: ...".
C38_ProcessMessageNeverRaises ==
    [][\A k \in 1..Len(inbox) :
          PassesHead(k) =>
              LET body == Head(new_messages).body IN
              /\ inbox'[k].replies = inbox[k].replies + 1
              /\ new_messages' = Tail(new_messages)
              /\ IF Strip(Lower(body)) = <<"reset">>
                 THEN /\ email_history' = <<>>
                      /\ inbox'[k].chats = inbox[k].chats
                      /\ inbox'[k].reply = "Conversation reset"
                 ELSE /\ inbox'[k].chats = inbox[k].chats + 1
                      /\ SubSeq(email_history', 1, Len(email_history) + 1) =
                             Append(email_history, [role |-> "user", content |-> body])
                      /\ IF Len(email_history') = Len(email_history) + 1
                         THEN inbox'[k].reply = "Error: e"
                         ELSE inbox'[k].reply = "a"]_vars

\* a chat() that raised was answered with the error text, the next message
\* of the same list, " Reset " as sent, emptied the conversation without a
\* chat() call
C38_Witness ==
    \E k, n \in 1..Len(inbox) :
        /\ k < n
        /\ inbox[k].reply = "Error: e" /\ inbox[k].chats = 1
        /\ inbox[n].body = <<Blank, "Reset", Blank>>
        /\ inbox[n].reply = "Conversation reset" /\ inbox[n].chats = 0
        /\ email_history = <<>>

====
